---- MODULE Spec2Model ----
(***************************************************************************)
(* State-machine model of backend/app/main.py: the in-memory stores        *)
(* (repos_store, issues_store, sessions_store, pr_creation_store) and the  *)
(* request handlers that read and write them.  A handler that awaits is    *)
(* the steps between its awaits: a call in progress is kept in inflight    *)
(* with the await it is at and its local variables, and the other calls    *)
(* take their steps in between.  A handler that awaits nothing is one      *)
(* step.  Spec runs the calls at the same time; SeqSpec and the            *)
(* specifications of one group of handlers make one call at a time.  The   *)
(* two external services (issue tracker, agent service) are the            *)
(* environment and answer nondeterministically.                            *)
(*                                                                         *)
(* Environment assumptions, taken from the services' contracts:            *)
(*   - the agent service issues a fresh session id for every session it    *)
(*     creates and knows every id it has issued;                           *)
(*   - a session body's "status" is a string when present, and its         *)
(*     "structured_output" is an object or null.                           *)
(***************************************************************************)
EXTENDS Integers, Sequences, FiniteSets, TLC

\* ------------------------------------------------------------- bounds
\* number of messages of the longest transcript
MaxMessages == 2
\* number of pieces of the longest text an upstream response or exception carries
MaxTextLen == 2
\* number of open items the tracker lists for the repository that is queried
MaxCached == 3
\* highest page number a query asks for
MaxPage == 3
\* number of open items of the longest tracker listing: more than one page
MaxOpenItems == 150
\* number of times the clock advances
MaxTicks == 1
\* saturation value of the per-session pull-request counter
MaxPRs == 2
\* number of handler calls that can be in progress at the same time
MaxRequests == 2
\* number of times the clock advances by half a session lifetime
MaxHalfDays == 3

\* ---------------------------------------------------- program constants
SESSION_TTL_HOURS == 24
PER_PAGE == 100

\* ------------------------------------------------------------ helpers
Put(f, k, v) == [x \in (DOMAIN f) \cup {k} |-> IF x = k THEN v ELSE f[x]]
Del(f, k) == [x \in (DOMAIN f) \ {k} |-> f[x]]
Min(a, b) == IF a < b THEN a ELSE b

\* A dict keeps its keys in the order they were inserted: d[k] = v puts a new
\* key behind the others and leaves the place of a key that is there, del d[k]
\* takes the key out.
KeyInserted(order, k) ==
  IF \E i \in 1..Len(order) : order[i] = k THEN order ELSE Append(order, k)
KeyDeleted(order, k) ==
  LET Other(x) == x # k
  IN SelectSeq(order, Other)

\* A JSON object is a function from keys to strings; a nullable object is
\* wrapped so that null and an object are values of one shape.
EmptyDict == [k \in {} |-> ""]
None == [some |-> FALSE, d |-> EmptyDict]
Some(d) == [some |-> TRUE, d |-> d]
\* Python truthiness of an Optional[dict]: None and {} are falsy
Truthy(so) == so.some /\ DOMAIN so.d # {}
\* dict.get(k) == v
GetIs(d, k, v) == k \in DOMAIN d /\ d[k] = v

\* the session ids the agent service issues, in the order it issues them
IdOrder == << "devin-1", "devin-2" >>
AllSessionIds == { IdOrder[i] : i \in 1..Len(IdOrder) }

\* --------------------------------------------------- the issue tracker
RepoUrl == "https://github.com/acme/widgets"
RepoId == "acme/widgets"
PatPush == "pat-push"
PatReadOnly == "pat-read-only"
PrUrl == "https://github.com/acme/widgets/pull/7"

\* A title is the sequence of its characters; created_at is in hours on the
\* model's clock (negative: before the clock started).
\* first page of the tracker's open-issue listing of acme/widgets: two issues,
\* one pull request
TrackerPage1 ==
  << [id |-> 101, number |-> 1, title |-> << "C", "r", "a", "s", "h" >>,
      is_pr |-> FALSE, labels |-> << "bug" >>, created_at |-> -50],
     [id |-> 201, number |-> 2, title |-> << "F", "i", "x" >>,
      is_pr |-> TRUE, labels |-> << >>, created_at |-> -10],
     [id |-> 102, number |-> 3, title |-> << "d", "a", "r", "k" >>,
      is_pr |-> FALSE, labels |-> << "ui", "bug" >>, created_at |-> -100] >>

\* issue ids a caller may name: the two tracked issues, and the pull request's id
IssueIdInputs == {101, 102, 201}

\* ------------------------------------------------------------- state
VARIABLES
  repos_store,        \* repo id -> repository record
  issues_store,       \* repo id -> sequence of cached issues
  cache_order,        \* the repo ids of issues_store, in the order a dict keeps them
  sessions_store,     \* session id -> [issue_id, repo_id, last_accessed, status]
  pr_creation_store,  \* session id -> PR creation intent
  now,                \* the clock, in hours
  agent_sessions,     \* session ids the agent service has issued
  pr_opened,          \* session id -> PR-create calls that succeeded since the intent was recorded
  pr_failed,          \* session ids whose intent has seen a PR-create call fail and none succeed
  inflight,           \* request id -> the handler call in progress and the await it is at
  tracker,            \* repo id -> the open items the issue tracker lists for it, in its order
  repo_refs,          \* who holds the very dict that repos_store holds for a repository
  last                \* what the most recent handler call did and returned

vars == << repos_store, issues_store, cache_order, sessions_store, pr_creation_store, now,
           agent_sessions, pr_opened, pr_failed, inflight, tracker, repo_refs, last >>

stores == << repos_store, issues_store, cache_order, sessions_store, pr_creation_store,
             repo_refs >>

\* The observation of one handler call.
Obs(op, sid, code, detail) ==
  [ op |-> op, sid |-> sid, code |-> code, detail |-> detail,
    issue |-> 0, approved |-> FALSE, branch |-> "", target |-> "",
    status |-> "", so |-> None, fallback |-> "",
    pr_calls |-> 0, pr_ok |-> FALSE, retried |-> FALSE, sent |-> 0,
    list_calls |-> 0, rows |-> {},
    repo |-> "", query |-> << >>, issues |-> << >>, total |-> 0,
    has_more |-> FALSE, fetched |-> 0, listed_page |-> 0, load_more |-> FALSE,
    messages |-> << >>, error |-> << >>, nudge |-> "" ]

\* the handler calls in progress: none at first
ReqIds == 1..MaxRequests
Idle == [op |-> "none", pc |-> "idle"]

\* A repository record is a dict, and a dict is held by reference.  execute_plan
\* keeps the dict it read from repos_store (line 1263) in a local variable and
\* stores it in the intent (line 1308); get_issues keeps it in repo_metadata
\* (line 836).  repo_refs.intents are the session ids whose intent holds the
\* dict that repos_store holds now, repo_refs.calls the request ids of the
\* calls in progress whose local variable does.  connect_repo puts a new dict
\* into repos_store (line 669) and delete_repo takes the dict out (line 733):
\* the holders keep the old dict, which nothing writes any more.
NoRefs == [intents |-> {}, calls |-> {}]
Unshared(repo_id) ==
  [intents |-> { s \in repo_refs.intents : pr_creation_store[s].repo_data.id # repo_id },
   calls |-> { q \in repo_refs.calls : inflight[q].repo_data.id # repo_id }]
\* resync_repo (lines 790-793) and get_issues (lines 878-881) write into the
\* dict repos_store holds: every holder of that dict reads the new values
SeenByIntents(repo_id, record) ==
  [s \in DOMAIN pr_creation_store |->
     IF s \in repo_refs.intents /\ pr_creation_store[s].repo_data.id = repo_id
       THEN [pr_creation_store[s] EXCEPT !.repo_data = record]
     ELSE pr_creation_store[s]]
SeenByCalls(repo_id, record) ==
  [q \in DOMAIN inflight |->
     IF q \in repo_refs.calls /\ inflight[q].repo_data.id = repo_id
       THEN [inflight[q] EXCEPT !.repo_data = record]
     ELSE inflight[q]]

\* no handler call is in progress
Quiet == \A r \in ReqIds : inflight[r] = Idle

Init ==
  /\ repos_store = [r \in {} |-> 0]
  /\ issues_store = [r \in {} |-> 0]
  /\ cache_order = << >>
  /\ sessions_store = [s \in {} |-> 0]
  /\ pr_creation_store = [s \in {} |-> 0]
  /\ now = 0
  /\ agent_sessions = {}
  /\ pr_opened = [s \in AllSessionIds |-> 0]
  /\ pr_failed = {}
  /\ inflight = [r \in ReqIds |-> Idle]
  /\ tracker = [r \in {RepoId} |-> TrackerPage1]
  /\ repo_refs = NoRefs
  /\ last = Obs("Init", "", 200, "")

\* -------------------------------------------------- repository handlers
\* A repository URL, already split the way connect_repo splits it.
UrlInputs ==
  { [host |-> "https://github.com/", parts |-> << "acme", "widgets" >>],
    [host |-> "https://gitlab.com/", parts |-> << "acme", "widgets" >>],
    [host |-> "https://github.com/", parts |-> << "acme", "widgets", "issues" >>] }

\* the permissions object the tracker reports for a credential
PermissionsOf(pat) ==
  IF pat = PatPush THEN [pull |-> TRUE, push |-> TRUE]
  ELSE IF pat = PatReadOnly THEN [pull |-> TRUE, push |-> FALSE]
  ELSE EmptyDict

\* page `page` of the tracker's listing for a repository, PER_PAGE items to a
\* page; pages past the end are empty
TrackerPage(repo_id, page) ==
  IF repo_id \notin DOMAIN tracker THEN << >>
  ELSE SubSeq(tracker[repo_id], (page - 1) * PER_PAGE + 1,
              Min(page * PER_PAGE, Len(tracker[repo_id])))

\* fetch_github_issues_batch, every request answering 200; max_pages = 0 stands
\* for None; requests counts the listing requests made (client.get, line 462)
RECURSIVE FetchLoop(_, _, _, _, _, _, _)
FetchLoop(repo_id, page, pages_fetched, all_issues, issues_data, max_pages, requests) ==
  LET done(data, pg, fetched, all, reqs) ==
        [ issues |-> all,
          has_more |-> (Len(data) = PER_PAGE
                        /\ (max_pages = 0 \/ fetched < max_pages)),
          total_fetched |-> Len(all),
          last_page |-> pg - 1,
          requests |-> reqs ]
  IN IF max_pages # 0 /\ pages_fetched >= max_pages
       THEN done(issues_data, page, pages_fetched, all_issues, requests)
     ELSE LET data == TrackerPage(repo_id, page)
          IN IF Len(data) = 0
               THEN done(data, page, pages_fetched, all_issues, requests + 1)
             ELSE IF Len(data) < PER_PAGE
               THEN done(data, page, pages_fetched + 1, all_issues \o data, requests + 1)
             ELSE FetchLoop(repo_id, page + 1, pages_fetched + 1, all_issues \o data,
                            data, max_pages, requests + 1)

\* a fetch that reports more pages whenever the last page it read was full
fetch_github_issues_batch_FullPageHasMore(repo_id, start_page, max_pages) ==
  LET batch == FetchLoop(repo_id, start_page, 0, << >>, << >>, max_pages, 0)
  IN [batch EXCEPT !.has_more = (batch.last_page >= start_page)]

fetch_github_issues_batch(repo_id, start_page, max_pages) ==
  FetchLoop(repo_id, start_page, 0, << >>, << >>, max_pages, 0)

\* the whole days in a number of hours, as timedelta.days gives them
HOURS_PER_DAY == 24
DaysIn(hours) == hours \div HOURS_PER_DAY

\* the loop over the fetched items that skips pull requests; the age of an issue
\* is worked out here, at the time of the fetch, and stored with it
ProcessIssues(items) ==
  LET IsIssue(it) == ~it.is_pr
      kept == SelectSeq(items, IsIssue)
  IN [i \in 1..Len(kept) |->
        [id |-> kept[i].id, number |-> kept[i].number, title |-> kept[i].title,
         labels |-> kept[i].labels, created_at |-> kept[i].created_at,
         age_days |-> DaysIn(now - kept[i].created_at),
         status |-> "open"]]

\* mutant: push access is not looked at
ConnectOutcome_NoPushCheck(url, pat, repo_code, list_code) ==
  IF url.host # "https://github.com/" THEN Obs("Connect", "", 400, "only_github")
  ELSE IF Len(url.parts) # 2 THEN Obs("Connect", "", 400, "bad_url")
  ELSE IF repo_code = 0 THEN Obs("Connect", "", 500, "network")
  ELSE IF repo_code = 401 THEN Obs("Connect", "", 400, "bad_token")
  ELSE IF repo_code = 403 THEN Obs("Connect", "", 400, "rate_or_permission")
  ELSE IF repo_code = 404 THEN Obs("Connect", "", 400, "repo_not_found")
  ELSE IF repo_code # 200 THEN Obs("Connect", "", 400, "repo_failed")
  ELSE IF DOMAIN PermissionsOf(pat) = {} THEN Obs("Connect", "", 400, "no_repo_scope")
  ELSE LET listed(o) == [o EXCEPT !.list_calls = 1]
       IN IF list_code = 0 THEN listed(Obs("Connect", "", 500, "network"))
          ELSE IF list_code = 403 THEN listed(Obs("Connect", "", 400, "rate_or_permission"))
          ELSE IF list_code # 200 THEN listed(Obs("Connect", "", 400, "issues_failed"))
          ELSE listed(Obs("Connect", "", 200, ""))

\* connect_repo: repo_code is the status of the repository lookup, list_code the
\* status of the issue listing (0: the transport failed)
ConnectOutcome(url, pat, repo_code, list_code) ==
  IF url.host # "https://github.com/" THEN Obs("Connect", "", 400, "only_github")
  ELSE IF Len(url.parts) # 2 THEN Obs("Connect", "", 400, "bad_url")
  ELSE IF repo_code = 0 THEN Obs("Connect", "", 500, "network")
  ELSE IF repo_code = 401 THEN Obs("Connect", "", 400, "bad_token")
  ELSE IF repo_code = 403 THEN Obs("Connect", "", 400, "rate_or_permission")
  ELSE IF repo_code = 404 THEN Obs("Connect", "", 400, "repo_not_found")
  ELSE IF repo_code # 200 THEN Obs("Connect", "", 400, "repo_failed")
  ELSE IF DOMAIN PermissionsOf(pat) = {} THEN Obs("Connect", "", 400, "no_repo_scope")
  ELSE IF ~PermissionsOf(pat).push THEN Obs("Connect", "", 400, "no_push_access")
  ELSE LET listed(o) == [o EXCEPT !.list_calls = 1]
       IN IF list_code = 0 THEN listed(Obs("Connect", "", 500, "network"))
          ELSE IF list_code = 403 THEN listed(Obs("Connect", "", 400, "rate_or_permission"))
          ELSE IF list_code # 200 THEN listed(Obs("Connect", "", 400, "issues_failed"))
          ELSE listed(Obs("Connect", "", 200, ""))

\* connect_repo, lines 669-681: the repository record it stores
ConnectedRepo(url, pat, batch, processed) ==
  [ id |-> url.parts[1] \o "/" \o url.parts[2],
    owner |-> url.parts[1], name |-> url.parts[2],
    github_issues_fetched_count |-> Len(processed),
    github_total_issues_estimate |-> Len(processed),
    github_has_more_pages |-> batch.has_more,
    github_last_page |-> batch.last_page,
    openIssuesCount |-> Len(processed),
    githubPat |-> pat ]

\* a delete that drops the issue caches of all repositories
DeleteRepo_ClearsCaches(repo_id) ==
  /\ repo_id \in DOMAIN repos_store
  /\ last' = [Obs("DeleteRepo", "", 200, "") EXCEPT !.repo = repo_id]
  /\ repos_store' = Del(repos_store, repo_id)
  /\ issues_store' = [r \in {} |-> 0]
  /\ cache_order' = << >>
  /\ repo_refs' = Unshared(repo_id)
  /\ UNCHANGED << sessions_store, pr_creation_store, now, tracker, inflight, agent_sessions,
                  pr_opened, pr_failed >>

\* delete_repo: it awaits nothing and is one step
DeleteRepo(repo_id) ==
  /\ IF repo_id \notin DOMAIN repos_store
       THEN /\ last' = [Obs("DeleteRepo", "", 404, "repo_not_found") EXCEPT !.repo = repo_id]
            /\ UNCHANGED << repos_store, issues_store, cache_order, repo_refs >>
       ELSE /\ last' = [Obs("DeleteRepo", "", 200, "") EXCEPT !.repo = repo_id]
            /\ repos_store' = Del(repos_store, repo_id)
            /\ issues_store' = Del(issues_store, repo_id)
            /\ cache_order' = KeyDeleted(cache_order, repo_id)
            /\ repo_refs' = Unshared(repo_id)
  /\ UNCHANGED << sessions_store, pr_creation_store, now, tracker, inflight, agent_sessions,
                  pr_opened, pr_failed >>

\* ------------------------------------------------------- the issue query
\* An optional string parameter: absent (None) or a string.  q and sort_order
\* are strings of characters, label is compared whole.
NoStr == [given |-> FALSE, s |-> << >>]
Str(s) == [given |-> TRUE, s |-> s]
NoLabel == [given |-> FALSE, s |-> ""]
Label(s) == [given |-> TRUE, s |-> s]
\* Python truthiness of an Optional[str]: None and "" are falsy
StrTruthy(o) == o.given /\ o.s # << >>
LabelTruthy(o) == o.given /\ o.s # ""

\* The characters of the model, in the order of their code points: printable
\* ASCII, 32 to 126, and the Latin-1 characters 192 to 255, which are letters
\* but for the signs 215 and 247.  A character is a
\* string of one character; "GRAVE" stands for the grave accent, code point 96.
Ascii ==
  << " ", "!", "\"", "#", "$", "%", "&", "'", "(", ")", "*", "+",
     ",", "-", ".", "/", "0", "1", "2", "3", "4", "5", "6", "7",
     "8", "9", ":", ";", "<", "=", ">", "?", "@", "A", "B", "C",
     "D", "E", "F", "G", "H", "I", "J", "K", "L", "M", "N", "O",
     "P", "Q", "R", "S", "T", "U", "V", "W", "X", "Y", "Z", "[",
     "\\", "]", "^", "_", "GRAVE", "a", "b", "c", "d", "e", "f", "g",
     "h", "i", "j", "k", "l", "m", "n", "o", "p", "q", "r", "s",
     "t", "u", "v", "w", "x", "y", "z", "{", "|", "}", "~" >>
Latin1 ==
  << "À", "Á", "Â", "Ã", "Ä", "Å", "Æ", "Ç", "È", "É", "Ê", "Ë",
     "Ì", "Í", "Î", "Ï", "Ð", "Ñ", "Ò", "Ó", "Ô", "Õ", "Ö", "×",
     "Ø", "Ù", "Ú", "Û", "Ü", "Ý", "Þ", "ß", "à", "á", "â", "ã",
     "ä", "å", "æ", "ç", "è", "é", "ê", "ë", "ì", "í", "î", "ï",
     "ð", "ñ", "ò", "ó", "ô", "õ", "ö", "÷", "ø", "ù", "ú", "û",
     "ü", "ý", "þ", "ÿ" >>
Characters == Ascii \o Latin1
\* ord() and chr()
CodePointOf ==
  [c \in {Characters[i] : i \in 1..Len(Characters)} |->
     LET at == CHOOSE i \in 1..Len(Characters) : Characters[i] = c
     IN IF at <= Len(Ascii) THEN 31 + at ELSE 191 + at - Len(Ascii)]
Ord(c) == CodePointOf[c]
Chr(n) == IF n < 192 THEN Ascii[n - 31] ELSE Latin1[n - 191]

\* str.lower(): on these characters it moves A to Z, 65 to 90, and the Latin-1
\* capitals, 192 to 222 without the multiplication sign 215, up by 32 and
\* leaves every other character as it is
LowerChar(c) ==
  LET n == Ord(c)
  IN IF (n >= 65 /\ n <= 90) \/ (n >= 192 /\ n <= 222 /\ n # 215)
       THEN Chr(n + 32)
     ELSE c
Lower(str) == [i \in 1..Len(str) |-> LowerChar(str[i])]

\* needle in hay, for strings
Contains(needle, hay) ==
  \E i \in 0..(Len(hay) - Len(needle)) :
     SubSeq(hay, i + 1, i + Len(needle)) = needle

\* a < b for strings: by code point, a proper prefix first
RECURSIVE StrLess(_, _)
StrLess(a, b) ==
  IF b = << >> THEN FALSE
  ELSE IF a = << >> THEN TRUE
  ELSE IF Ord(Head(a)) # Ord(Head(b)) THEN Ord(Head(a)) < Ord(Head(b))
  ELSE StrLess(Tail(a), Tail(b))

\* lines 888-890: an unknown sort field is replaced by created_at
SortField(sort_by) ==
  IF sort_by \in {"created_at", "age_days", "title", "number"} THEN sort_by
  ELSE "created_at"

\* an order that is reversed for asc
reverse_order_ForAsc(sort_order) ==
  StrTruthy(sort_order) /\ Lower(sort_order.s) = << "a", "s", "c" >>

\* line 892
reverse_order(sort_order) ==
  StrTruthy(sort_order) /\ Lower(sort_order.s) = << "d", "e", "s", "c" >>

\* key(x) < key(y) for the key functions of lines 894-901
KeyLess(sort_by, x, y) ==
  IF sort_by = "title" THEN StrLess(Lower(x.title), Lower(y.title))
  ELSE IF sort_by = "age_days" THEN x.age_days < y.age_days
  ELSE IF sort_by = "number" THEN x.number < y.number
  ELSE x.created_at < y.created_at

Reverse(xs) == [i \in 1..Len(xs) |-> xs[Len(xs) + 1 - i]]

\* a stable ascending sort: an element is placed behind the elements with a
\* smaller key and the elements before it with an equal key
SortAscending(xs, sort_by) ==
  LET n == Len(xs)
      indexed == [i \in 1..n |-> [i |-> i, x |-> xs[i]]]
      Before(a, b) == \/ KeyLess(sort_by, a.x, b.x)
                      \/ (~KeyLess(sort_by, b.x, a.x) /\ a.i < b.i)
      placed == SortSeq(indexed, Before)
  IN [k \in 1..n |-> placed[k].x]

\* sorted(xs, key=..., reverse=...): with reverse the list is reversed, sorted
\* ascending and reversed again, which keeps equal keys in their first order
sorted(xs, sort_by, reverse) ==
  IF reverse THEN Reverse(SortAscending(Reverse(xs), sort_by))
  ELSE SortAscending(xs, sort_by)

\* lines 903-908: the two filters; a falsy q or label filters nothing
TitleMatches(issue, q) == ~StrTruthy(q) \/ Contains(Lower(q.s), Lower(issue.title))
LabelMatches(issue, label) ==
  ~LabelTruthy(label) \/ \E i \in 1..Len(issue.labels) : issue.labels[i] = label.s
Filtered(issues, q, label) ==
  LET Keep(issue) == TitleMatches(issue, q) /\ LabelMatches(issue, label)
  IN SelectSeq(issues, Keep)

\* xs[start:end] for a list; a negative index counts from the end
Max(a, b) == IF a > b THEN a ELSE b
SliceIndex(i, n) == IF i < 0 THEN Max(i + n, 0) ELSE Min(i, n)
PySlice(xs, start, end) ==
  SubSeq(xs, SliceIndex(start, Len(xs)) + 1, SliceIndex(end, Len(xs)))

\* lines 886-912: sort, then filter; what is left is the filtered set, and
\* the page is cut out of it
QueryFiltered(issues, query) ==
  Filtered(sorted(issues, SortField(query.sort_by), reverse_order(query.sort_order)),
           query.q, query.label)
\* a page that starts one page too far
Paginate_SkipsAPage(issues, page, pageSize) ==
  LET start == page * pageSize
  IN PySlice(issues, start, start + pageSize)

\* lines 910-912
Paginate(issues, page, pageSize) ==
  LET start == (page - 1) * pageSize
  IN PySlice(issues, start, start + pageSize)
QueryPage(issues, query) ==
  Paginate(QueryFiltered(issues, query), query.page, query.pageSize)

\* line 838, behind the two checks of lines 830-834: the next page is asked for
\* only with load_more and a cursor that says there is more
LoadsMore(repo_id, load_more) ==
  /\ repo_id \in DOMAIN issues_store /\ repo_id \in DOMAIN repos_store
  /\ load_more /\ repos_store[repo_id].github_has_more_pages

\* get_issues, lines 886-934: the answer made of the cache and of the record the
\* handler read at line 836.  query is [q, label, page, pageSize, sort_by,
\* sort_order].
GetIssuesReturns(repo_id, query, load_more, cache, repo_metadata, list_calls, listed_page) ==
  \E issues \in {QueryFiltered(cache, query)} :
    last' = [Obs("GetIssues", "", 200, "") EXCEPT
               !.repo = repo_id, !.query = query, !.load_more = load_more,
               !.list_calls = list_calls,
               !.listed_page = listed_page,
               !.issues = Paginate(issues, query.page, query.pageSize),
               !.total = Len(issues),
               !.has_more = repo_metadata.github_has_more_pages,
               !.fetched = repo_metadata.github_issues_fetched_count]

\* The repository handlers as the steps between their awaits.  A call of
\* connect_repo or resync_repo in progress is [op, pc, repo_id, url, pat,
\* next_page]: pc is the request it awaits, the other fields are the handler's
\* local variables.  When a handler returns or raises, its request id is free
\* again.
RepoLocals(op, pc, repo_id, url, pat, next_page) ==
  [op |-> op, pc |-> pc, repo_id |-> repo_id, url |-> url, pat |-> pat,
   next_page |-> next_page]
\* a call of get_issues in progress: query and repo_data (repo_metadata, line
\* 836) are local variables as well
GetIssuesLocals(pc, repo_id, next_page, query, repo_data) ==
  [op |-> "GetIssues", pc |-> pc, repo_id |-> repo_id, next_page |-> next_page,
   query |-> query, repo_data |-> repo_data]

\* connect_repo is called: the URL checks, then it awaits the repository lookup
ConnectCall(r, url, pat) ==
  LET out == ConnectOutcome(url, pat, 200, 200)
  IN /\ inflight[r] = Idle
     /\ IF out.detail \in {"only_github", "bad_url"}
          THEN /\ last' = out
               /\ UNCHANGED inflight
          ELSE /\ last' = Obs("ConnectCall", "", 0, "repo_lookup")
               /\ inflight' = [inflight EXCEPT ![r] =
                     RepoLocals("Connect", "repo_lookup",
                                url.parts[1] \o "/" \o url.parts[2], url, pat, 1)]
     /\ UNCHANGED << stores, now, tracker, agent_sessions, pr_opened, pr_failed >>

\* the repository lookup has answered: lines 598-638, then connect_repo awaits
\* the issue listing
ConnectLookedUp(r, repo_code) ==
  LET c == inflight[r]
      out == ConnectOutcome(c.url, c.pat, repo_code, 200)
  IN /\ c.op = "Connect" /\ c.pc = "repo_lookup"
     /\ IF out.code # 200
          THEN /\ last' = out
               /\ inflight' = [inflight EXCEPT ![r] = Idle]
          ELSE /\ last' = Obs("ConnectAwait", "", 0, "list_issues")
               /\ inflight' = [inflight EXCEPT ![r].pc = "list_issues"]
     /\ UNCHANGED << stores, now, tracker, agent_sessions, pr_opened, pr_failed >>

\* a resync that asks the tracker and caches the answer before it looks the
\* repository up
ResyncCall_FetchesFirst(r, repo_id) ==
  /\ inflight[r] = Idle
  /\ last' = Obs("ResyncCall", "", 0, "list_issues")
  /\ inflight' = [inflight EXCEPT ![r] =
        RepoLocals("Resync", "list_issues", repo_id, << >>,
                   IF repo_id \in DOMAIN repos_store
                     THEN repos_store[repo_id].githubPat ELSE "", 1)]
  /\ UNCHANGED << stores, now, tracker, agent_sessions, pr_opened, pr_failed >>

\* resync_repo is called: line 743, then it awaits the issue listing
ResyncCall(r, repo_id) ==
  /\ inflight[r] = Idle
  /\ IF repo_id \notin DOMAIN repos_store
       THEN /\ last' = [Obs("Resync", "", 404, "repo_not_found") EXCEPT !.repo = repo_id]
            /\ UNCHANGED inflight
       ELSE /\ last' = Obs("ResyncCall", "", 0, "list_issues")
            /\ inflight' = [inflight EXCEPT ![r] =
                  RepoLocals("Resync", "list_issues", repo_id, << >>,
                             repos_store[repo_id].githubPat, 1)]
  /\ UNCHANGED << stores, now, tracker, agent_sessions, pr_opened, pr_failed >>

\* get_issues is called: lines 829-838; with load_more and more pages recorded
\* it awaits the listing of the next page, otherwise it answers from the cache
GetIssuesCall(r, repo_id, query, load_more) ==
  LET asked(o) == [o EXCEPT !.repo = repo_id, !.query = query, !.load_more = load_more]
  IN /\ inflight[r] = Idle
     /\ IF repo_id \notin DOMAIN issues_store
          THEN /\ last' = asked(Obs("GetIssues", "", 404, "repo_not_found"))
               /\ UNCHANGED << inflight, repo_refs >>
        ELSE IF repo_id \notin DOMAIN repos_store
          THEN /\ last' = asked(Obs("GetIssues", "", 404, "metadata_not_found"))
               /\ UNCHANGED << inflight, repo_refs >>
        ELSE IF LoadsMore(repo_id, load_more)
          THEN /\ last' = Obs("GetIssuesCall", "", 0, "list_issues")
               /\ inflight' = [inflight EXCEPT ![r] =
                     GetIssuesLocals("list_issues", repo_id,
                                     repos_store[repo_id].github_last_page + 1,
                                     query, repos_store[repo_id])]
               /\ repo_refs' = [repo_refs EXCEPT !.calls = @ \cup {r}]
        ELSE /\ GetIssuesReturns(repo_id, query, load_more, issues_store[repo_id],
                                 repos_store[repo_id], 0, 0)
             /\ UNCHANGED << inflight, repo_refs >>
     /\ UNCHANGED << repos_store, issues_store, cache_order, sessions_store,
                     pr_creation_store, now, tracker, agent_sessions, pr_opened, pr_failed >>

\* connect_repo, lines 640-688, once the listing has answered: the record it
\* stores is a new dict
ConnectListed(r, list_code) ==
  LET c == inflight[r]
      out == ConnectOutcome(c.url, c.pat, 200, list_code)
      batch == fetch_github_issues_batch(c.repo_id, 1, 1)
      processed == ProcessIssues(batch.issues)
  IN /\ last' = IF out.code = 200
                  THEN [out EXCEPT !.repo = c.repo_id, !.listed_page = 1,
                                   !.list_calls = batch.requests]
                  ELSE out
     /\ inflight' = [inflight EXCEPT ![r] = Idle]
     /\ UNCHANGED pr_creation_store
     /\ IF out.code = 200
          THEN /\ repos_store' = Put(repos_store, c.repo_id,
                                     ConnectedRepo(c.url, c.pat, batch, processed))
               /\ issues_store' = Put(issues_store, c.repo_id, processed)
               /\ cache_order' = KeyInserted(cache_order, c.repo_id)
               /\ repo_refs' = Unshared(c.repo_id)
          ELSE UNCHANGED << repos_store, issues_store, cache_order, repo_refs >>

\* the answer of resync_repo when the listing fails
ResyncFailed(repo_id, list_code) ==
  [Obs("Resync", "", IF list_code = 0 THEN 500 ELSE 400,
       IF list_code = 0 THEN "network"
       ELSE IF list_code = 403 THEN "rate_or_permission"
       ELSE "issues_failed") EXCEPT !.list_calls = 1, !.listed_page = 1, !.repo = repo_id]

\* a resync that keeps what was cached and adds the first page behind it
ResyncListed_Appends(r, list_code) ==
  LET c == inflight[r]
      batch == fetch_github_issues_batch(c.repo_id, 1, 1)
      processed == ProcessIssues(batch.issues)
      written == list_code = 200 /\ c.repo_id \in DOMAIN repos_store
                 /\ c.repo_id \in DOMAIN issues_store
      record == [repos_store[c.repo_id] EXCEPT
                   !.openIssuesCount = Len(processed),
                   !.github_issues_fetched_count = Len(processed)]
  IN /\ inflight' = [inflight EXCEPT ![r] = Idle]
     /\ UNCHANGED << cache_order, repo_refs, pr_creation_store >>
     /\ IF written
          THEN /\ issues_store' = [issues_store EXCEPT ![c.repo_id] = @ \o processed]
               /\ repos_store' = [repos_store EXCEPT ![c.repo_id] = record]
               /\ last' = [Obs("Resync", "", 200, "") EXCEPT
                             !.list_calls = batch.requests, !.listed_page = 1,
                             !.repo = c.repo_id]
          ELSE /\ UNCHANGED << issues_store, repos_store >>
               /\ last' = ResyncFailed(c.repo_id, list_code)

\* resync_repo, lines 759-814, once the listing has answered: the cache is
\* written first, and writing the counters of a repository that is gone raises
\* KeyError, which ends the handler with 500.  The counters are written into
\* the dict repos_store holds.
ResyncListed(r, list_code) ==
  LET c == inflight[r]
      batch == fetch_github_issues_batch(c.repo_id, 1, 1)
      processed == ProcessIssues(batch.issues)
      written == list_code = 200 /\ c.repo_id \in DOMAIN repos_store
      record == [repos_store[c.repo_id] EXCEPT
                   !.openIssuesCount = Len(processed),
                   !.github_issues_fetched_count = Len(processed),
                   !.github_has_more_pages = batch.has_more,
                   !.github_last_page = batch.last_page]
      listed(o) == [o EXCEPT !.list_calls = batch.requests, !.listed_page = 1,
                             !.repo = c.repo_id]
  IN /\ UNCHANGED repo_refs
     /\ IF list_code # 200
          THEN /\ last' = ResyncFailed(c.repo_id, list_code)
               /\ inflight' = [inflight EXCEPT ![r] = Idle]
               /\ UNCHANGED << repos_store, issues_store, cache_order, pr_creation_store >>
        ELSE /\ issues_store' = Put(issues_store, c.repo_id, processed)
             /\ cache_order' = KeyInserted(cache_order, c.repo_id)
             /\ IF written
                  THEN /\ repos_store' = [repos_store EXCEPT ![c.repo_id] = record]
                       /\ pr_creation_store' = SeenByIntents(c.repo_id, record)
                       /\ inflight' = [SeenByCalls(c.repo_id, record) EXCEPT ![r] = Idle]
                       /\ last' = listed(Obs("Resync", "", 200, ""))
                  ELSE /\ UNCHANGED << repos_store, pr_creation_store >>
                       /\ inflight' = [inflight EXCEPT ![r] = Idle]
                       /\ last' = listed(Obs("Resync", "", 500, "internal"))

\* get_issues, lines 849-884, once the listing of the next page has answered:
\* the four writes of lines 877-881, where every error is caught and printed;
\* the handler then awaits the closing of the client, at the end of the
\* async with block
GetIssuesListed(r, list_code) ==
  LET c == inflight[r]
      batch == fetch_github_issues_batch(c.repo_id, c.next_page, 1)
      processed == ProcessIssues(batch.issues)
      appended == list_code = 200 /\ c.repo_id \in DOMAIN issues_store
      extended == IF appended THEN [issues_store EXCEPT ![c.repo_id] = @ \o processed]
                  ELSE issues_store
      written == appended /\ c.repo_id \in DOMAIN repos_store
      record == [repos_store[c.repo_id] EXCEPT
                   !.github_issues_fetched_count = @ + Len(processed),
                   !.github_has_more_pages = batch.has_more,
                   !.github_last_page = batch.last_page,
                   !.openIssuesCount = Len(extended[c.repo_id])]
  IN /\ issues_store' = extended
     /\ UNCHANGED << cache_order, repo_refs >>
     /\ repos_store' = IF written THEN [repos_store EXCEPT ![c.repo_id] = record]
                       ELSE repos_store
     /\ pr_creation_store' = IF written THEN SeenByIntents(c.repo_id, record)
                             ELSE pr_creation_store
     /\ inflight' = [(IF written THEN SeenByCalls(c.repo_id, record) ELSE inflight)
                        EXCEPT ![r].pc = "client_close"]
     /\ last' = Obs("GetIssuesAwait", "", 0, "client_close")

\* get_issues, lines 886-934, once the client is closed: reading the cache of
\* a repository that is gone (line 886) raises KeyError, and the answer reads
\* the cache as it is now and the record of line 836
GetIssuesClosed(r) ==
  LET c == inflight[r]
  IN /\ UNCHANGED << repos_store, issues_store, cache_order, pr_creation_store >>
     /\ inflight' = [inflight EXCEPT ![r] = Idle]
     /\ repo_refs' = [repo_refs EXCEPT !.calls = @ \ {r}]
     /\ IF c.repo_id \in DOMAIN issues_store
          THEN GetIssuesReturns(c.repo_id, c.query, TRUE, issues_store[c.repo_id],
                                c.repo_data, 1, c.next_page)
          ELSE last' = [Obs("GetIssues", "", 500, "internal") EXCEPT
                          !.repo = c.repo_id, !.query = c.query, !.load_more = TRUE,
                          !.list_calls = 1, !.listed_page = c.next_page]

\* the await of a handler on the tracker's client returns: the issue listing
\* has answered with list_code (0: the transport failed) and the handler runs
\* to its next await or to its end, or the client of get_issues is closed
ListingAnswered(r, list_code) ==
  /\ inflight[r].pc \in {"list_issues", "client_close"}
  /\ IF inflight[r].pc = "client_close" THEN GetIssuesClosed(r)
     ELSE IF inflight[r].op = "Connect" THEN ConnectListed(r, list_code)
     ELSE IF inflight[r].op = "Resync" THEN ResyncListed(r, list_code)
     ELSE GetIssuesListed(r, list_code)
  /\ UNCHANGED << sessions_store, now, tracker, agent_sessions, pr_opened, pr_failed >>

\* the clock advances by an hour more than the session lifetime
TickHours == SESSION_TTL_HOURS + 1
Tick ==
  /\ now < MaxTicks * TickHours
  /\ now' = now + TickHours
  /\ last' = Obs("Tick", "", 200, "")
  /\ UNCHANGED << stores, agent_sessions, pr_opened, pr_failed, inflight, tracker >>

\* ------------------------------------------------------ agent service
\* the structured output a session body may carry
ValidOutput(st) ==
  [k \in {"progress_pct", "status", "summary"} |->
     IF k = "status" THEN st ELSE IF k = "progress_pct" THEN "100" ELSE "plan"]

\* a pull request the agent opened itself and reports in its output
AgentPrUrl == "https://github.com/acme/widgets/pull/3"

UpstreamOutputs ==
  { None, Some(EmptyDict), Some(ValidOutput("blocked")),
    Some(Put(ValidOutput("completed"), "pr_url", AgentPrUrl)) }

\* the status a session body may carry; ABSENT: the body has no "status" key
UpstreamStatuses == {"running", "blocked", "completed", "ABSENT"}

\* The text of a transcript message, as the tokens the pattern of line 1403
\* and json.loads tell apart: the fence with the word json behind it, the
\* fence, white space, the braces, a comma, the key of a member whose value is
\* an object, and the text of the members "k": v, ... of an object d, which
\* has no brace and no fence in it.
Token(t) == [t |-> t, d |-> EmptyDict]
JsonFence == Token("fence json")
Fence == Token("fence")
Ws == Token(" ")
LBrace == Token("{")
RBrace == Token("}")
Comma == Token(",")
NestedKey == Token("details:")
Members(d) == [t |-> "members", d |-> d]
Object(d) == IF d = EmptyDict THEN << LBrace, RBrace >> ELSE << LBrace, Members(d), RBrace >>

\* A fenced block that holds the object d; one whose object has a comma before
\* its closing brace; one whose object is not closed.
Block(d) == << JsonFence, Ws >> \o Object(d) \o << Ws, Fence >>
Malformed == << JsonFence, Ws, LBrace, Members([status |-> "completed"]), Comma, RBrace, Ws, Fence >>
Unterminated == << JsonFence, Ws, LBrace, Members([status |-> "completed"]), Ws, Fence >>

\* the pieces of a text one behind the other, white space between them
RECURSIVE Join(_)
Join(pieces) ==
  IF pieces = << >> THEN << >>
  ELSE IF Len(pieces) = 1 THEN pieces[1]
  ELSE pieces[1] \o << Ws >> \o Join(Tail(pieces))

\* The value under the key "message": a string, null, or the key is missing.
Text(tokens) == [kind |-> "str", tokens |-> tokens]
NullText == [kind |-> "null", tokens |-> << >>]
AbsentText == [kind |-> "absent", tokens |-> << >>]

\* A transcript message: a JSON object with a type and a text, or a value that
\* is not an object.
DevinMsg(blocks) == [shape |-> "dict", type |-> "devin_message", text |-> Text(Join(blocks))]
UserMsg(blocks) == [shape |-> "dict", type |-> "user_message", text |-> Text(Join(blocks))]
NullMsg == [shape |-> "dict", type |-> "devin_message", text |-> NullText]
NoTextMsg == [shape |-> "dict", type |-> "devin_message", text |-> AbsentText]
NotADict == [shape |-> "other", type |-> "", text |-> AbsentText]

Transcripts ==
  { << >>,
    << DevinMsg(<< Block(ValidOutput("completed")) >>), UserMsg(<< >>) >>,
    << DevinMsg(<< Block(ValidOutput("blocked")) >>),
       DevinMsg(<< Malformed, Block([status |-> "completed"]) >>) >>,
    << UserMsg(<< Block(ValidOutput("completed")) >>) >>,
    << NullMsg >> }

\* \s*: the first place at or behind i that holds no white space
RECURSIVE SkipWs(_, _)
SkipWs(text, i) ==
  IF i <= Len(text) /\ text[i] = Ws THEN SkipWs(text, i + 1) ELSE i

\* the three characters of a fence: a fence, or the head of a fence with the
\* word json behind it
StartsFence(token) == token \in {Fence, JsonFence}

\* \}\s* and the closing fence, looked for from place e on: the first closing
\* brace that has white space and a fence behind it; 0 if there is none
RECURSIVE FirstClose(_, _)
FirstClose(text, e) ==
  IF e > Len(text) THEN 0
  ELSE IF text[e] = RBrace /\ SkipWs(text, e + 1) <= Len(text)
                           /\ StartsFence(text[SkipWs(text, e + 1)]) THEN e
  ELSE FirstClose(text, e + 1)

\* line 1403, json_pattern tried at place i: the fence with json, white space,
\* an opening brace, as little as possible up to a closing brace that has
\* white space and a fence behind it.  The place of that closing brace, the
\* end of the group; 0 if the pattern does not match at i.
MatchAt(text, i) ==
  IF text[i] = JsonFence /\ SkipWs(text, i + 1) <= Len(text)
                         /\ text[SkipWs(text, i + 1)] = LBrace
    THEN FirstClose(text, SkipWs(text, i + 1) + 1)
  ELSE 0

\* line 1404, re.findall(json_pattern, message_text, re.DOTALL): the groups
\* of the matches from left to right, each match looked for behind the end of
\* the one before, which is the closing fence
RECURSIVE findall(_, _)
FoundAt(text, i, to) ==
  IF to = 0 THEN findall(text, i + 1)
  ELSE << SubSeq(text, SkipWs(text, i + 1), to) >> \o findall(text, SkipWs(text, to + 1) + 1)
findall(text, start) ==
  IF start > Len(text) THEN << >>
  ELSE FoundAt(text, start, MatchAt(text, start))

\* json.loads of an object: [ok, next, d], next being the place behind the
\* closing brace.  A later member with the same key replaces the earlier one;
\* the value of a member that is an object is written "object".
ParseFailed == [ok |-> FALSE, next |-> 0, d |-> EmptyDict]
Merge(d, e) == [k \in (DOMAIN d) \cup (DOMAIN e) |-> IF k \in DOMAIN e THEN e[k] ELSE d[k]]
RECURSIVE ParseObject(_, _)
RECURSIVE ParseMember(_, _, _)
RECURSIVE ParseRest(_, _, _)
ParseObject(t, i) ==
  LET j == SkipWs(t, i + 1)
  IN IF j > Len(t) THEN ParseFailed
     ELSE IF t[j] = RBrace THEN [ok |-> TRUE, next |-> j + 1, d |-> EmptyDict]
     ELSE ParseMember(t, j, EmptyDict)
ParseMember(t, j, d) ==
  IF j > Len(t) THEN ParseFailed
  ELSE IF t[j].t = "members" THEN ParseRest(t, SkipWs(t, j + 1), Merge(d, t[j].d))
  ELSE IF t[j] = NestedKey
    THEN LET k == SkipWs(t, j + 1)
         IN IF k <= Len(t) /\ t[k] = LBrace
              THEN LET o == ParseObject(t, k)
                   IN IF o.ok THEN ParseRest(t, SkipWs(t, o.next), Put(d, "details", "object"))
                      ELSE ParseFailed
            ELSE ParseFailed
  ELSE ParseFailed
ParseRest(t, j, d) ==
  IF j > Len(t) THEN ParseFailed
  ELSE IF t[j] = RBrace THEN [ok |-> TRUE, next |-> j + 1, d |-> d]
  ELSE IF t[j] = Comma THEN ParseMember(t, SkipWs(t, j + 1), d)
  ELSE ParseFailed

\* line 1408, json.loads(match): the group starts with a brace; text behind
\* the object is an error.  [ok, d]; not ok: json.JSONDecodeError
json_loads(match) ==
  LET o == ParseObject(match, 1)
  IN IF o.ok /\ o.next = Len(match) + 1 THEN [ok |-> TRUE, d |-> o.d]
     ELSE [ok |-> FALSE, d |-> EmptyDict]

\* lines 1406-1413: the first match, in order, that parses and has the three keys
RECURSIVE FirstValidBlock(_)
FirstValidBlock(matches) ==
  IF matches = << >> THEN None
  ELSE LET parsed == json_loads(Head(matches))
       IN IF parsed.ok /\ {"progress_pct", "status", "summary"} \subseteq DOMAIN parsed.d
            THEN Some(parsed.d)
          ELSE FirstValidBlock(Tail(matches))

\* extract_structured_output_from_messages: [raised, so].  message.get on a
\* value that is not an object raises, and so does re.findall on a text that
\* is null; a missing text is the empty string.
RECURSIVE extract_structured_output_from_messages(_)
extract_structured_output_from_messages(messages) ==
  IF messages = << >> THEN [raised |-> FALSE, so |-> None]
  ELSE LET message == messages[Len(messages)]
           older == SubSeq(messages, 1, Len(messages) - 1)
       IN IF message.shape # "dict" THEN [raised |-> TRUE, so |-> None]
          ELSE IF message.type = "devin_message"
            THEN IF message.text.kind = "null"
                   THEN [raised |-> TRUE, so |-> None]
                 ELSE LET found == FirstValidBlock(findall(message.text.tokens, 1))
                      IN IF found.some THEN [raised |-> FALSE, so |-> found]
                         ELSE extract_structured_output_from_messages(older)
          ELSE extract_structured_output_from_messages(older)

Placeholder ==
  [k \in {"progress_pct", "confidence", "status", "summary", "risks",
          "dependencies", "estimated_hours", "action_plan", "branch_suggestion"} |->
     IF k \in {"progress_pct", "estimated_hours"} THEN "0"
     ELSE IF k = "confidence" THEN "low"
     ELSE IF k = "status" THEN "scoping"
     ELSE IF k = "summary" THEN "Creating Plan"
     ELSE IF k = "branch_suggestion" THEN ""
     ELSE "[]"]

\* a poll that asks for an update whenever the answer of the agent service
\* has no structured output, whatever the transcript gives
ResolveOutput_AsksWhateverFound(status, upstream_so, messages) ==
  IF ~upstream_so.some
    THEN LET ex == extract_structured_output_from_messages(messages)
         IN [raised |-> ex.raised, so |-> ex.so, nudged |-> ~ex.raised]
  ELSE [raised |-> FALSE, so |-> upstream_so, nudged |-> FALSE]

\* get_devin_session, lines 1123-1150: the structured output the poll works with.
\* [raised, so, nudged]; nudged: a message asking for an update was sent.
ResolveOutput(status, upstream_so, messages) ==
  IF ~upstream_so.some
    THEN LET ex == extract_structured_output_from_messages(messages)
         IN [raised |-> ex.raised, so |-> ex.so,
             nudged |-> ~ex.raised /\ ~ex.so.some]
  ELSE IF status = "running" /\ ~upstream_so.some
    THEN LET ex == extract_structured_output_from_messages(messages)
             so1 == IF Truthy(ex.so) THEN ex.so ELSE upstream_so
         IN [raised |-> ex.raised,
             so |-> IF ~so1.some /\ status \in {"blocked", "completed"}
                      THEN Some(Placeholder) ELSE so1,
             nudged |-> FALSE]
  ELSE [raised |-> FALSE, so |-> upstream_so, nudged |-> FALSE]

\* ------------------------------------------------ pull-request trigger
\* mutant: the trigger looks at the upstream status only
PrTriggerFires_StatusOnly(status, so, sid, intents) ==
  /\ status = "completed"
  /\ sid \in DOMAIN intents
  /\ ~intents[sid].pr_created

\* get_devin_session, lines 1162-1165
PrTriggerFires(status, so, sid, intents) ==
  /\ (status = "completed" \/ (Truthy(so) /\ GetIs(so.d, "status", "completed")))
  /\ sid \in DOMAIN intents
  /\ ~intents[sid].pr_created

\* mutant: a created pull request is not recorded in the intent
PrOutcome_NoFlag(intents, sid, so, pr_ok, url) ==
  IF pr_ok
    THEN [ intents |-> intents,
           so |-> IF Truthy(so) THEN Some(Put(so.d, "pr_url", url))
                  ELSE Some([k \in {"pr_url"} |-> url]),
           raised |-> FALSE ]
  ELSE [ intents |-> intents, so |-> so, raised |-> FALSE ]

\* mutant: the URL is written only into a structured output that is there
PrOutcome_UrlOnlyIfOutput(intents, sid, so, pr_ok, url) ==
  IF pr_ok
    THEN [ intents |-> [intents EXCEPT ![sid].pr_created = TRUE],
           so |-> IF Truthy(so) THEN Some(Put(so.d, "pr_url", url)) ELSE so,
           raised |-> FALSE ]
  ELSE [ intents |-> intents, so |-> so, raised |-> FALSE ]

\* mutant: a failing PR creation sets the flag all the same, so nothing retries
PrOutcome_FlagOnFailure(intents, sid, so, pr_ok, url) ==
  [ intents |-> [intents EXCEPT ![sid].pr_created = TRUE],
    so |-> IF ~pr_ok THEN so
           ELSE IF Truthy(so) THEN Some(Put(so.d, "pr_url", url))
           ELSE Some([k \in {"pr_url"} |-> url]),
    raised |-> FALSE ]

\* mutant: a failing PR creation is not caught
PrOutcome_FailureRaises(intents, sid, so, pr_ok, url) ==
  IF pr_ok
    THEN [ intents |-> [intents EXCEPT ![sid].pr_created = TRUE],
           so |-> IF Truthy(so) THEN Some(Put(so.d, "pr_url", url))
                  ELSE Some([k \in {"pr_url"} |-> url]),
           raised |-> FALSE ]
  ELSE [ intents |-> intents, so |-> so, raised |-> TRUE ]

\* get_devin_session, lines 1167-1203: the guarded PR creation; pr_ok says whether
\* create_github_pr returned a pull request (with url) or raised.
\* [intents, so, raised]
PrOutcome(intents, sid, so, pr_ok, url) ==
  IF pr_ok
    THEN [ intents |-> [intents EXCEPT ![sid].pr_created = TRUE],
           so |-> IF Truthy(so) THEN Some(Put(so.d, "pr_url", url))
                  ELSE Some([k \in {"pr_url"} |-> url]),
           raised |-> FALSE ]
  ELSE [ intents |-> intents, so |-> so, raised |-> FALSE ]

\* --------------------------------------------------- session handlers
\* the (repository, index) pairs of the cached issues with this id
IssueMatches(issue_id) ==
  { m \in UNION { { << r, i >> : i \in 1..Len(issues_store[r]) } : r \in DOMAIN issues_store } :
      issues_store[m[1]][m[2]].id = issue_id }

\* the lookup loop of scope_issue (947-955), execute_plan (1259-1266) and
\* get_active_sessions (1358-1365): the caches are gone through in the order
\* issues_store.items() gives them, and the first issue with this id in the
\* first cache that has one is taken; then repos_store[repo_id] is read, which
\* raises KeyError when the cache has no repository record (raises).
IssueFound(issue_id) == IssueMatches(issue_id) # {} 
FindIssue(issue_id) ==
  LET caches == { c \in 1..Len(cache_order) :
                    \E m \in IssueMatches(issue_id) : m[1] = cache_order[c] }
      first == CHOOSE c \in caches : \A d \in caches : c <= d
      repo_id == cache_order[first]
      m == CHOOSE m \in IssueMatches(issue_id) :
             /\ m[1] = repo_id
             /\ \A o \in IssueMatches(issue_id) : o[1] = repo_id => m[2] <= o[2]
  IN [repo_id |-> repo_id, issue |-> issues_store[repo_id][m[2]],
      raises |-> repo_id \notin DOMAIN repos_store]
\* the lookup finds the issue and fails on the missing repository record
LookupRaises(issue_id) == IssueFound(issue_id) /\ FindIssue(issue_id).raises

\* what an upload to scope_issue can be
FileInputs == {"none", "text", "too_large", "bad_extension", "not_utf8"}
\* how the agent service answers create_session
CreateOutcomes == {"ok", "no_session_id", "http_error", "network"}
\* how the agent service answers get_session / send_message for this id
CallOutcomes(sid) ==
  IF sid \in agent_sessions THEN {"ok", "http_error", "network"}
  ELSE {"not_found", "http_error", "network"}

\* the id the agent service gives its next session
CanIssue == Cardinality(agent_sessions) < Len(IdOrder)
NextSessionId ==
  IF CanIssue THEN IdOrder[Cardinality(agent_sessions) + 1] ELSE "none"

\* the session record scope_issue stores
NewSession(issue_id, repo_id) ==
  [issue_id |-> issue_id, repo_id |-> repo_id, last_accessed |-> now,
   status |-> "scoping"]

\* scope_issue: the status code and detail of a call with this upload whose
\* create_session ends this way
ScopeOutcome(issue_id, files, create) ==
  LET o == Obs("Scope", "", 200, "")
  IN    IF ~IssueFound(issue_id) THEN [o EXCEPT !.code = 404, !.detail = "issue_not_found"]
        ELSE IF LookupRaises(issue_id) THEN [o EXCEPT !.code = 500, !.detail = "internal"]
        ELSE IF files = "too_large" THEN [o EXCEPT !.code = 400, !.detail = "file_too_large"]
        ELSE IF files = "bad_extension" THEN [o EXCEPT !.code = 400, !.detail = "file_type"]
        ELSE IF files = "not_utf8" THEN [o EXCEPT !.code = 400, !.detail = "file_not_text"]
        ELSE IF create = "http_error" THEN [o EXCEPT !.code = 500, !.detail = "agent_error"]
        ELSE IF create = "network" THEN [o EXCEPT !.code = 500, !.detail = "agent_unreachable"]
        ELSE IF create = "no_session_id" THEN [o EXCEPT !.code = 500, !.detail = "no_session_id"]
        ELSE o

\* get_devin_session, line 1122: session_data.get("status", "unknown")
StatusOf(upstream_status) ==
  IF upstream_status = "ABSENT" THEN "unknown" ELSE upstream_status

\* get_devin_session, lines 1157-1160
TouchOnPoll(sessions, sid, status) ==
  IF sid \in DOMAIN sessions
    THEN [sessions EXCEPT ![sid].last_accessed = now, ![sid].status = status]
  ELSE sessions

\* get_devin_session as the steps between its awaits (get_session, the
\* send_message that asks for an update, create_github_pr); the code between two
\* awaits runs without interruption.  A call in progress is [op, pc, sid,
\* status, so, pr_calls, fallback, nudge, messages]: pc is the await it is at,
\* status and so are the handler's local variables; the other fields record what
\* the call has done: pr_calls counts its create_github_pr calls, fallback says
\* whether the transcript was searched and gave an output, nudge how the
\* send_message of line 1130 ended, messages is the transcript it was answered.
\* When the handler returns or raises, its request id is free again.
PollLocals(pc, sid, status, so, pr_calls, fallback, nudge, messages) ==
  [op |-> "Poll", pc |-> pc, sid |-> sid, status |-> status, so |-> so,
   pr_calls |-> pr_calls, fallback |-> fallback, nudge |-> nudge,
   messages |-> messages]

\* the handler is called and awaits get_session
PollCall(r, sid) ==
  /\ inflight[r] = Idle
  /\ inflight' = [inflight EXCEPT ![r] =
                    PollLocals("get_session", sid, "", None, 0, "", "", << >>)]
  /\ last' = Obs("PollCall", sid, 0, "get_session")
  /\ UNCHANGED << stores, now, tracker, agent_sessions, pr_opened, pr_failed >>

\* lines 1205-1211: what the call c answers when it returns so
PollAnswer(c, so) ==
  [Obs("Poll", c.sid, 200, "") EXCEPT
     !.status = c.status, !.so = so, !.fallback = c.fallback,
     !.pr_calls = c.pr_calls,
     !.sent = IF c.nudge = "" THEN 0 ELSE 1, !.nudge = c.nudge,
     !.messages = c.messages]

\* lines 1152-1187 for the call c of request r: the session is touched, the
\* trigger condition is read, and the handler either awaits create_github_pr
\* or returns
PollAfterResolve(r, c) ==
  LET fires == PrTriggerFires(c.status, c.so, c.sid, pr_creation_store)
  IN /\ sessions_store' = TouchOnPoll(sessions_store, c.sid, c.status)
     /\ IF fires
          THEN /\ inflight' = [inflight EXCEPT ![r] =
                                 [c EXCEPT !.pc = "create_github_pr", !.pr_calls = 1]]
               /\ last' = Obs("PollAwait", c.sid, 0, "create_github_pr")
          ELSE /\ inflight' = [inflight EXCEPT ![r] = Idle]
               /\ last' = PollAnswer(c, c.so)
     /\ UNCHANGED << repos_store, issues_store, cache_order, pr_creation_store, repo_refs,
                     now, tracker, agent_sessions, pr_opened, pr_failed >>

\* get_session has answered: lines 1120-1136, then on as far as the next await
PollGotSession(r, get, upstream_status, upstream_so, messages) ==
  LET c == inflight[r]
      status == StatusOf(upstream_status)
      fail(code, detail) ==
        /\ inflight' = [inflight EXCEPT ![r] = Idle]
        /\ last' = Obs("Poll", c.sid, code, detail)
        /\ UNCHANGED << stores, now, tracker, agent_sessions, pr_opened, pr_failed >>
  IN /\ c.op = "Poll" /\ c.pc = "get_session"
     /\ IF get # "ok" THEN fail(IF get = "not_found" THEN 404 ELSE 500, get)
        ELSE \E res \in {ResolveOutput(status, upstream_so, messages)} :
          \E got \in {[c EXCEPT !.status = status, !.so = res.so,
                                !.messages = messages,
                                !.fallback = IF upstream_so.some THEN "not_needed"
                                             ELSE IF res.so.some THEN "found"
                                             ELSE "none"]} :
             IF res.raised THEN fail(500, "internal")
             ELSE IF res.nudged
               THEN /\ inflight' = [inflight EXCEPT ![r] =
                                      [got EXCEPT !.pc = "send_message"]]
                    /\ last' = Obs("PollAwait", c.sid, 0, "send_message")
                    /\ UNCHANGED << stores, now, tracker, agent_sessions,
                                    pr_opened, pr_failed >>
             ELSE PollAfterResolve(r, got)

\* the send_message that asks for an update has returned or raised (nudge;
\* lines 1129-1132 catch and print what it raises)
PollNudged(r, nudge) ==
  LET c == inflight[r]
  IN /\ c.op = "Poll" /\ c.pc = "send_message"
     /\ PollAfterResolve(r, [c EXCEPT !.nudge = nudge])

\* create_github_pr has returned a pull request (pr_ok) or raised: lines
\* 1194-1220; the flag is written into the intent the session has now
PollPrReturned(r, pr_ok) ==
  LET c == inflight[r]
  IN /\ c.op = "Poll" /\ c.pc = "create_github_pr"
     /\ \E pr \in {PrOutcome(pr_creation_store, c.sid, c.so, pr_ok, PrUrl)} :
          /\ pr_creation_store' = pr.intents
          /\ last' = IF pr.raised
                       THEN [PollAnswer(c, None) EXCEPT !.code = 500, !.detail = "internal"]
                     ELSE [PollAnswer(c, pr.so) EXCEPT
                             !.pr_ok = pr_ok,
                             !.retried = c.sid \in pr_failed]
     /\ pr_opened' = IF pr_ok THEN [pr_opened EXCEPT ![c.sid] = Min(@ + 1, MaxPRs)]
                     ELSE pr_opened
     /\ pr_failed' = IF pr_ok THEN pr_failed \ {c.sid} ELSE pr_failed \cup {c.sid}
     /\ inflight' = [inflight EXCEPT ![r] = Idle]
     /\ UNCHANGED << repos_store, issues_store, cache_order, sessions_store, repo_refs,
                     now, tracker, agent_sessions >>

\* mutant: a follow-up that was sent counts as a touch of the session
SendFollowup_Touches(sid, send) ==
  /\ last' = [Obs("SendFollowup", sid,
                  IF send = "ok" THEN 200 ELSE IF send = "not_found" THEN 404 ELSE 500,
                  IF send = "ok" THEN "" ELSE send) EXCEPT !.sent = 1]
  /\ sessions_store' = IF send = "ok" /\ sid \in DOMAIN sessions_store
                          THEN [sessions_store EXCEPT ![sid].last_accessed = now]
                        ELSE sessions_store
  /\ UNCHANGED << repos_store, issues_store, cache_order, pr_creation_store, repo_refs,
                  now, tracker, inflight, agent_sessions, pr_opened, pr_failed >>

\* send_message_to_devin: it reads and writes no store, so its one await is no
\* place where another call can change what it does
SendFollowup(sid, send) ==
  /\ last' = [Obs("SendFollowup", sid,
                  IF send = "ok" THEN 200 ELSE IF send = "not_found" THEN 404 ELSE 500,
                  IF send = "ok" THEN "" ELSE send) EXCEPT !.sent = 1]
  /\ UNCHANGED << stores, now, tracker, inflight, agent_sessions, pr_opened, pr_failed >>

\* mutant: the approval check is missing
NotApproved_Never(approved) == FALSE

\* execute_plan, line 1251
NotApproved(approved) == ~approved

\* mutant: head and base branch are stored the wrong way round
RecordIntent_Swapped(intents, sid, issue_id, issue_number, repo_data, branch, target) ==
  Put(intents, sid,
      [ issue_id |-> issue_id, issue_number |-> issue_number,
        repo_data |-> repo_data, branch_name |-> target,
        target_branch |-> branch, pr_created |-> FALSE ])

\* execute_plan, lines 1305-1312
RecordIntent(intents, sid, issue_id, issue_number, repo_data, branch, target) ==
  Put(intents, sid,
      [ issue_id |-> issue_id, issue_number |-> issue_number,
        repo_data |-> repo_data, branch_name |-> branch,
        target_branch |-> target, pr_created |-> FALSE ])

\* execute_plan, lines 1314-1317
TouchOnExecute(sessions, sid) ==
  IF sid \in DOMAIN sessions
    THEN [sessions EXCEPT ![sid].status = "executing", ![sid].last_accessed = now]
  ELSE sessions

\* the (branch, target) pairs an execute request may carry
BranchInputs == { << "feat/issue-1", "main" >>, << "hotfix", "develop" >> }

\* scope_issue as the steps between its awaits (file.read, create_session).  A
\* call in progress is [op, pc, issue_id, repo_id, files]: pc is the await it is
\* at, issue_id and repo_id are what the lookup of lines 947-955 found.  When
\* the handler returns or raises, its request id is free again.
ScopeLocals(pc, issue_id, repo_id, files) ==
  [op |-> "Scope", pc |-> pc, issue_id |-> issue_id, repo_id |-> repo_id,
   files |-> files]

\* the handler is called: the lookup and the checks of size and extension
\* (lines 947-991), then it awaits the upload's content or create_session
ScopeCall(r, issue_id, files) ==
  LET out == ScopeOutcome(issue_id, IF files = "not_utf8" THEN "text" ELSE files, "ok")
  IN /\ inflight[r] = Idle
     /\ IF out.code # 200
          THEN /\ last' = out
               /\ UNCHANGED inflight
          ELSE /\ last' = Obs("ScopeCall", "", 0,
                              IF files = "none" THEN "create_session" ELSE "file_read")
               /\ inflight' = [inflight EXCEPT ![r] =
                     ScopeLocals(IF files = "none" THEN "create_session" ELSE "file_read",
                                 issue_id, FindIssue(issue_id).repo_id, files)]
     /\ UNCHANGED << stores, now, tracker, agent_sessions, pr_opened, pr_failed >>

\* the upload's content has been read: lines 994-1001, then the handler awaits
\* create_session
ScopeFileRead(r) ==
  LET c == inflight[r]
  IN /\ c.op = "Scope" /\ c.pc = "file_read"
     /\ IF c.files = "not_utf8"
          THEN /\ last' = Obs("Scope", "", 400, "file_not_text")
               /\ inflight' = [inflight EXCEPT ![r] = Idle]
          ELSE /\ last' = Obs("ScopeAwait", "", 0, "create_session")
               /\ inflight' = [inflight EXCEPT ![r].pc = "create_session"]
     /\ UNCHANGED << stores, now, tracker, agent_sessions, pr_opened, pr_failed >>

\* create_session has answered: lines 1085-1114; the session is stored under
\* the issue and repository found before the awaits, with the time it is now
ScopeCreated(r, create) ==
  LET c == inflight[r]
  IN /\ c.op = "Scope" /\ c.pc = "create_session"
     /\ create = "ok" => CanIssue
     /\ inflight' = [inflight EXCEPT ![r] = Idle]
     /\ IF create = "ok"
          THEN /\ last' = [Obs("Scope", "", 200, "") EXCEPT
                             !.sid = NextSessionId, !.issue = c.issue_id]
               /\ agent_sessions' = agent_sessions \cup {NextSessionId}
               /\ sessions_store' = Put(sessions_store, NextSessionId,
                                        NewSession(c.issue_id, c.repo_id))
          ELSE /\ last' = [Obs("Scope", "", 500,
                               IF create = "http_error" THEN "agent_error"
                               ELSE IF create = "network" THEN "agent_unreachable"
                               ELSE "no_session_id") EXCEPT !.issue = c.issue_id]
               /\ UNCHANGED << sessions_store, agent_sessions >>
     /\ UNCHANGED << repos_store, issues_store, cache_order, pr_creation_store, repo_refs,
                     now, tracker, pr_opened, pr_failed >>

\* execute_plan as the steps around its await (send_message).  A call in
\* progress is [op, pc, issue_id, sid, bt, approved, issue_number, repo_data]:
\* issue_number and repo_data are what the lookup of lines 1259-1266 read,
\* repo_data being the dict of repos_store itself.
ExecuteLocals(pc, issue_id, sid, bt, approved, issue_number, repo_data) ==
  [op |-> "Execute", pc |-> pc, issue_id |-> issue_id, sid |-> sid, bt |-> bt,
   approved |-> approved, issue_number |-> issue_number, repo_data |-> repo_data]

\* an execute that records the intent and moves the session before it sends
\* the message
ExecuteCall_RecordsBeforeSend(r, issue_id, sid, bt, approved) ==
  LET f == FindIssue(issue_id)
  IN /\ inflight[r] = Idle
     /\ approved /\ IssueFound(issue_id) /\ ~LookupRaises(issue_id)
     /\ last' = Obs("ExecuteCall", sid, 0, "send_message")
     /\ inflight' = [inflight EXCEPT ![r] =
           ExecuteLocals("send_message", issue_id, sid, bt, approved, f.issue.number,
                         repos_store[f.repo_id])]
     /\ repo_refs' = [repo_refs EXCEPT !.calls = @ \cup {r}]
     /\ pr_creation_store' = Put(pr_creation_store, sid,
           [ issue_id |-> issue_id, issue_number |-> f.issue.number,
             repo_data |-> repos_store[f.repo_id], branch_name |-> bt[1],
             target_branch |-> bt[2], pr_created |-> FALSE ])
     /\ sessions_store' = IF sid \in DOMAIN sessions_store
                            THEN [sessions_store EXCEPT ![sid].status = "executing",
                                                        ![sid].last_accessed = now]
                          ELSE sessions_store
     /\ UNCHANGED << repos_store, issues_store, cache_order, now, tracker,
                     agent_sessions, pr_opened, pr_failed >>

\* the handler is called: the approval check and the lookup (lines 1251-1269),
\* then it awaits send_message
ExecuteCall(r, issue_id, sid, bt, approved) ==
  LET e == [Obs("Execute", sid, 200, "") EXCEPT !.approved = approved]
      f == FindIssue(issue_id)
  IN /\ inflight[r] = Idle
     /\ IF NotApproved(approved)
          THEN /\ last' = [e EXCEPT !.code = 400, !.detail = "not_approved"]
               /\ UNCHANGED << inflight, repo_refs >>
        ELSE IF ~IssueFound(issue_id)
          THEN /\ last' = [e EXCEPT !.code = 404, !.detail = "issue_not_found"]
               /\ UNCHANGED << inflight, repo_refs >>
        ELSE IF LookupRaises(issue_id)
          THEN /\ last' = [e EXCEPT !.code = 500, !.detail = "internal"]
               /\ UNCHANGED << inflight, repo_refs >>
        ELSE /\ last' = Obs("ExecuteCall", sid, 0, "send_message")
             /\ inflight' = [inflight EXCEPT ![r] =
                   ExecuteLocals("send_message", issue_id, sid, bt, approved,
                                 f.issue.number, repos_store[f.repo_id])]
             /\ repo_refs' = [repo_refs EXCEPT !.calls = @ \cup {r}]
     /\ UNCHANGED << repos_store, issues_store, cache_order, sessions_store,
                     pr_creation_store, now, tracker, agent_sessions, pr_opened, pr_failed >>

\* send_message has returned or raised: lines 1303-1334; the intent is recorded
\* with the issue number and the dict the lookup read before the await, the
\* session is touched with the time it is now
ExecuteSent(r, send) ==
  LET c == inflight[r]
      e == [Obs("Execute", c.sid, 200, "") EXCEPT !.approved = c.approved, !.sent = 1]
  IN /\ c.op = "Execute" /\ c.pc = "send_message"
     /\ inflight' = [inflight EXCEPT ![r] = Idle]
     /\ IF send # "ok"
          THEN /\ last' = [e EXCEPT !.code = IF send = "not_found" THEN 404 ELSE 500,
                                    !.detail = send]
               /\ repo_refs' = [repo_refs EXCEPT !.calls = @ \ {r}]
               /\ UNCHANGED << sessions_store, pr_creation_store, pr_opened, pr_failed >>
          ELSE /\ last' = [e EXCEPT !.issue = c.issue_id, !.branch = c.bt[1],
                                    !.target = c.bt[2]]
               /\ pr_creation_store' =
                    RecordIntent(pr_creation_store, c.sid, c.issue_id, c.issue_number,
                                 c.repo_data, c.bt[1], c.bt[2])
               /\ repo_refs' = [intents |-> IF r \in repo_refs.calls
                                               THEN repo_refs.intents \cup {c.sid}
                                             ELSE repo_refs.intents \ {c.sid},
                                calls |-> repo_refs.calls \ {r}]
               /\ sessions_store' = TouchOnExecute(sessions_store, c.sid)
               /\ pr_opened' = [pr_opened EXCEPT ![c.sid] = 0]
               /\ pr_failed' = pr_failed \ {c.sid}
     /\ UNCHANGED << repos_store, issues_store, cache_order, now, tracker, agent_sessions >>

\* cancel_session
Cancel(sid) ==
  /\ IF sid \notin DOMAIN sessions_store
       THEN /\ last' = Obs("Cancel", sid, 404, "session_not_found")
            /\ UNCHANGED sessions_store
       ELSE /\ last' = Obs("Cancel", sid, 200, "")
            /\ sessions_store' = [sessions_store EXCEPT ![sid].status = "cancelled",
                                                        ![sid].last_accessed = now]
  /\ UNCHANGED << repos_store, issues_store, cache_order, pr_creation_store, repo_refs,
                  now, tracker, inflight, agent_sessions, pr_opened, pr_failed >>

\* mutant: a session last touched exactly one lifetime ago is removed too
ExpiredSessions_Inclusive ==
  { s \in DOMAIN sessions_store :
      sessions_store[s].last_accessed <= now - SESSION_TTL_HOURS }

\* cleanup_old_sessions: the ids it removes
ExpiredSessions ==
  { s \in DOMAIN sessions_store :
      sessions_store[s].last_accessed < now - SESSION_TTL_HOURS }

\* cleanup_old_sessions as an operation of its own; the code calls it from
\* startup_event only, the specifications let it run between any two handlers
CleanupExpired ==
  /\ sessions_store' = [s \in (DOMAIN sessions_store) \ ExpiredSessions |-> sessions_store[s]]
  /\ last' = Obs("CleanupExpired", "", 200, "")
  /\ UNCHANGED << repos_store, issues_store, cache_order, pr_creation_store, repo_refs,
                  now, tracker, inflight, agent_sessions, pr_opened, pr_failed >>

\* get_issue_session: the sessions it may return for an issue
ActiveStatus(status) == status \notin {"completed", "failed"}
IssueSessions(issue_id) ==
  { s \in DOMAIN sessions_store :
      sessions_store[s].issue_id = issue_id /\ ActiveStatus(sessions_store[s].status) }

\* get_active_sessions: the ids it lists; the lookup of the issue of a session
\* that is not completed or failed raises KeyError when the cache it finds the
\* issue in has no repository record (line 1362), and nothing is listed
ActiveSessions ==
  LET active == { s \in DOMAIN sessions_store : ActiveStatus(sessions_store[s].status) }
      raises == \E s \in active : LookupRaises(sessions_store[s].issue_id)
  IN [raises |-> raises,
      ids |-> IF raises THEN {}
              ELSE { s \in active : IssueFound(sessions_store[s].issue_id) }]

\* get_active_sessions: the rows it returns, each session joined with the title
\* of its issue and the name of the repository the issue is cached under
ActiveSessionRows ==
  { [ session_id |-> s,
      issue_id |-> sessions_store[s].issue_id,
      repo_id |-> sessions_store[s].repo_id,
      issue_title |-> FindIssue(sessions_store[s].issue_id).issue.title,
      repo_name |-> repos_store[FindIssue(sessions_store[s].issue_id).repo_id].name,
      status |-> sessions_store[s].status,
      last_accessed |-> sessions_store[s].last_accessed ] : s \in ActiveSessions.ids }

\* get_active_sessions
ListActive ==
  /\ last' = IF ActiveSessions.raises THEN Obs("ListActive", "", 500, "internal")
              ELSE [Obs("ListActive", "", 200, "") EXCEPT !.rows = ActiveSessionRows]
  /\ UNCHANGED << stores, now, tracker, inflight, agent_sessions, pr_opened, pr_failed >>

\* the clock advances by half a session lifetime
HalfDay == SESSION_TTL_HOURS \div 2
TickHalfDay ==
  /\ now < MaxHalfDays * HalfDay
  /\ now' = now + HalfDay
  /\ last' = Obs("Tick", "", 200, "")
  /\ UNCHANGED << stores, agent_sessions, pr_opened, pr_failed, inflight, tracker >>

\* ------------------------------------------------------ specification
GoodUrl == [host |-> "https://github.com/", parts |-> << "acme", "widgets" >>]

\* the request id of the call in progress, in the specifications that make one
\* call at a time: a handler is called when no call is in progress, and a
\* handler that awaits nothing runs when none is (Quiet)
TheCall == 1

\* connect_repo with a credential that can push, every request answered 200
ConnectOk(r, url) ==
  \/ ConnectCall(r, url, PatPush)
  \/ ConnectLookedUp(r, 200)
  \/ /\ inflight[r].op = "Connect"
     /\ ListingAnswered(r, 200)

\* scope_issue without an upload, create_session answering with a session id,
\* which is to be one of ids
ScopeOk(ids, r, issue_id) ==
  \/ /\ NextSessionId \in ids
     /\ ScopeCall(r, issue_id, "none")
  \/ ScopeCreated(r, "ok")

\* execute_plan of a stored session for the issue it was scoped for, the
\* message being accepted
ExecuteOk(r) ==
  \/ \E s \in DOMAIN sessions_store :
       ExecuteCall(r, sessions_store[s].issue_id, s, << "hotfix", "develop" >>, TRUE)
  \/ ExecuteSent(r, "ok")

\* get_devin_session answered with a structured output of the status, the
\* tracker creating the pull request when asked
PollOk(r) ==
  \/ \E s \in agent_sessions : PollCall(r, s)
  \/ \E st \in {"blocked", "completed"} :
       PollGotSession(r, "ok", st, Some(ValidOutput(st)), << >>)
  \/ PollPrReturned(r, TRUE)

\* the calls of connect_repo the specifications make: a URL that is no
\* owner/name pair, a credential without push access, and a credential with
\* it, whose issue listing fails or succeeds
ConnectInputs ==
  { << [host |-> "https://github.com/", parts |-> << "acme", "widgets", "issues" >>],
       PatPush >>,
    << GoodUrl, PatReadOnly >>,
    << GoodUrl, PatPush >> }

\* the calls of scope_issue the specifications make: each tracked issue, an id
\* that is no cached issue, and a bad upload
ScopeInputs ==
  { << 101, "none" >>, << 102, "text" >>, << 201, "none" >>, << 101, "too_large" >> }

\* the session bodies the agent service answers a Poll with: every status with
\* every structured output, and the transcripts that matter (the body has no
\* structured output) with the statuses blocked and completed
PollInputs ==
  { << st, so, << >> >> : st \in UpstreamStatuses, so \in UpstreamOutputs }
    \cup { << st, None, ms >> : st \in {"blocked", "completed"}, ms \in Transcripts }

\* the agent service answers the get_session of the call r
PollGets(r) ==
  /\ inflight[r].op = "Poll"
  /\ \/ \E get \in CallOutcomes(inflight[r].sid) \ {"ok"} :
          PollGotSession(r, get, "ABSENT", None, << >>)
     \/ /\ "ok" \in CallOutcomes(inflight[r].sid)
        /\ \E in \in PollInputs : PollGotSession(r, "ok", in[1], in[2], in[3])

\* the agent service answers the send_message of the call r
PollNudges(r) ==
  /\ inflight[r].op = "Poll"
  /\ \E nudge \in CallOutcomes(inflight[r].sid) : PollNudged(r, nudge)
ExecuteSends(r) ==
  /\ inflight[r].op = "Execute"
  /\ \E send \in CallOutcomes(inflight[r].sid) : ExecuteSent(r, send)

\* the calls of execute_plan the specifications make
ExecuteInputs ==
  { << i, bt, TRUE >> : i \in IssueIdInputs, bt \in BranchInputs }
    \cup { << 101, << "hotfix", "develop" >>, FALSE >> }

\* every session handler, one call at a time (a call returns before the next is
\* made), in any order, on the one session the agent service issues, for the
\* issues of one connected repository
OneSession == {IdOrder[1]}
SeqNext ==
  \/ \E c \in ConnectInputs : ConnectCall(TheCall, c[1], c[2])
  \/ ConnectLookedUp(TheCall, 200)
  \/ \E list_code \in {200, 500} : ListingAnswered(TheCall, list_code)
  \/ Quiet /\ Tick
  \/ \E c \in ScopeInputs : ScopeCall(TheCall, c[1], c[2])
  \/ ScopeFileRead(TheCall)
  \/ \E create \in {"ok", "http_error", "no_session_id"} :
       /\ create = "ok" => NextSessionId \in OneSession
       /\ ScopeCreated(TheCall, create)
  \/ \E s \in OneSession : PollCall(TheCall, s)
  \/ PollGets(TheCall)
  \/ PollNudges(TheCall)
  \/ \E pr_ok \in BOOLEAN : PollPrReturned(TheCall, pr_ok)
  \/ Quiet /\ \E s \in OneSession : \E send \in CallOutcomes(s) : SendFollowup(s, send)
  \/ \E s \in OneSession, e \in ExecuteInputs : ExecuteCall(TheCall, e[1], s, e[2], e[3])
  \/ ExecuteSends(TheCall)
  \/ Quiet /\ \E s \in OneSession : Cancel(s)
  \/ Quiet /\ CleanupExpired

SeqSpec == Init /\ [][SeqNext]_vars

\* The same handlers, where every call that is made is answered, Polls of
\* every session keep being made, the agent service keeps answering them
\* with status completed, and the tracker keeps creating the pull request it
\* is asked for.
LiveSpec ==
  /\ SeqSpec
  /\ WF_vars(SeqNext)
  /\ \A s \in OneSession : SF_vars(PollCall(TheCall, s))
  /\ SF_vars(\E so \in UpstreamOutputs :
               PollGotSession(TheCall, "ok", "completed", so, << >>))
  /\ SF_vars(PollPrReturned(TheCall, TRUE))

\* two sessions, every call answered without error and one call at a time: the
\* repository is connected, issues are scoped, sessions polled, executed for
\* their issue, cancelled, expired
PairNext ==
  \/ ConnectOk(TheCall, GoodUrl)
  \/ Quiet /\ Tick
  \/ \E i \in {101, 102} : ScopeOk(AllSessionIds, TheCall, i)
  \/ PollOk(TheCall)
  \/ ExecuteOk(TheCall)
  \/ Quiet /\ \E s \in AllSessionIds : Cancel(s)
  \/ Quiet /\ CleanupExpired

PairSpec == Init /\ [][PairNext]_vars

\* two sessions on a clock that advances by half a session lifetime, so that a
\* session can be less than, exactly and more than one lifetime old: sessions
\* are scoped, polled, executed, sent a follow-up, cancelled, listed and swept,
\* and the repository is deleted and connected again; one call at a time
SweepNext ==
  \/ ConnectOk(TheCall, GoodUrl)
  \/ Quiet /\ DeleteRepo(RepoId)
  \/ Quiet /\ TickHalfDay
  \/ ScopeOk(AllSessionIds, TheCall, 101)
  \/ PollOk(TheCall)
  \/ ExecuteOk(TheCall)
  \/ Quiet /\ \E s \in agent_sessions : SendFollowup(s, "ok")
  \/ Quiet /\ \E s \in AllSessionIds : Cancel(s)
  \/ Quiet /\ CleanupExpired
  \/ Quiet /\ ListActive

SweepSpec == Init /\ [][SweepNext]_vars

\* Polls of one session that run at the same time and interleave at their
\* awaits.  The session is scoped and executed once, the agent service reports
\* it completed, and the tracker creates every pull request it is asked for, so
\* that a second PR-create call can only come from the interleaving.
RaceNext ==
  \/ ConnectOk(TheCall, GoodUrl)
  \/ ScopeOk(OneSession, TheCall, 101)
  \/ \E s \in DOMAIN sessions_store :
       /\ s \notin DOMAIN pr_creation_store
       /\ ExecuteCall(TheCall, sessions_store[s].issue_id, s, << "hotfix", "develop" >>, TRUE)
  \/ ExecuteSent(TheCall, "ok")
  \/ \E r \in ReqIds, s \in agent_sessions : PollCall(r, s)
  \/ \E r \in ReqIds, get \in {"ok", "http_error"}, st \in {"running", "completed"},
        so \in {None, Some(ValidOutput("completed"))} :
       PollGotSession(r, get, st, so, << >>)
  \/ \E r \in ReqIds : PollNudged(r, "ok")
  \/ \E r \in ReqIds : PollPrReturned(r, TRUE)

RaceSpec == Init /\ [][RaceNext]_vars

DefaultQuery ==
  [q |-> NoStr, label |-> NoLabel, page |-> 1, pageSize |-> 100,
   sort_by |-> "created_at", sort_order |-> Str(<< "d", "e", "s", "c" >>)]

\* Connect, Delete, Resync and load-more calls on one repository that run at
\* the same time and interleave at their awaits
RepoRaceNext ==
  \/ \E r \in ReqIds, c \in ConnectInputs : ConnectCall(r, c[1], c[2])
  \/ \E r \in ReqIds, repo_code \in {200, 404} : ConnectLookedUp(r, repo_code)
  \/ \E r \in ReqIds : ResyncCall(r, RepoId)
  \/ \E r \in ReqIds, load_more \in BOOLEAN : GetIssuesCall(r, RepoId, DefaultQuery, load_more)
  \/ \E r \in ReqIds, list_code \in {200, 403, 0} : ListingAnswered(r, list_code)
  \/ DeleteRepo(RepoId)

RepoRaceSpec == Init /\ [][RepoRaceNext]_vars

\* The repository handlers on two repositories, one call at a time, with the
\* tracker's listing of acme/widgets changing between calls, the clock
\* advancing, and a session scoped for a cached issue.
GadgetsId == "acme/gadgets"
GadgetsUrl == [host |-> "https://github.com/", parts |-> << "acme", "gadgets" >>]
RepoIds == {RepoId, GadgetsId}
GadgetsListing ==
  << [id |-> 301, number |-> 1, title |-> << "L", "o", "g" >>,
      is_pr |-> FALSE, labels |-> << >>, created_at |-> -30],
     [id |-> 302, number |-> 2, title |-> << "l", "o", "g" >>,
      is_pr |-> FALSE, labels |-> << "bug" >>, created_at |-> -30] >>

\* a listing of MaxOpenItems open items, every tenth a pull request
LongListing ==
  [i \in 1..MaxOpenItems |->
     [id |-> 1000 + i, number |-> i, title |-> << "t" >>,
      is_pr |-> (i % 10 = 0), labels |-> << >>, created_at |-> 0 - i]]
\* the long listing after NewOnTop issues were opened: the newest come first, so
\* the items that ended page 1 are on page 2 now
NewOnTop == 10
GrownListing ==
  [i \in 1..(MaxOpenItems + NewOnTop) |->
     IF i <= NewOnTop
       THEN [id |-> 2000 + i, number |-> MaxOpenItems + i, title |-> << "n" >>,
             is_pr |-> FALSE, labels |-> << >>, created_at |-> 0]
     ELSE LongListing[i - NewOnTop]]
Listings == {TrackerPage1, << >>, LongListing, GrownListing}

\* issues are opened and closed on the tracker
TrackerChanges(repo_id, listing) ==
  /\ tracker[repo_id] # listing
  /\ tracker' = [tracker EXCEPT ![repo_id] = listing]
  /\ last' = [Obs("TrackerChanges", "", 200, "") EXCEPT !.repo = repo_id]
  /\ UNCHANGED << stores, now, inflight, agent_sessions, pr_opened, pr_failed >>

RepoInit ==
  /\ repos_store = [r \in {} |-> 0]
  /\ issues_store = [r \in {} |-> 0]
  /\ cache_order = << >>
  /\ sessions_store = [s \in {} |-> 0]
  /\ pr_creation_store = [s \in {} |-> 0]
  /\ now = 0
  /\ agent_sessions = {}
  /\ pr_opened = [s \in AllSessionIds |-> 0]
  /\ pr_failed = {}
  /\ inflight = [r \in ReqIds |-> Idle]
  /\ tracker = [r \in RepoIds |-> IF r = RepoId THEN TrackerPage1 ELSE GadgetsListing]
  /\ repo_refs = NoRefs
  /\ last = Obs("Init", "", 200, "")

RepoNext ==
  \/ \E url \in {GoodUrl, GadgetsUrl} : ConnectCall(TheCall, url, PatPush)
  \/ ConnectLookedUp(TheCall, 200)
  \/ \E repo_id \in RepoIds : ResyncCall(TheCall, repo_id)
  \/ \E list_code \in {200, 403, 0} : ListingAnswered(TheCall, list_code)
  \/ Quiet /\ \E repo_id \in RepoIds : DeleteRepo(repo_id)
  \/ \E repo_id \in RepoIds, load_more \in BOOLEAN :
        GetIssuesCall(TheCall, repo_id, DefaultQuery, load_more)
  \/ Quiet /\ \E listing \in Listings : TrackerChanges(RepoId, listing)
  \/ ScopeOk(OneSession, TheCall, 101)
  \/ Quiet /\ Tick

RepoSpec == RepoInit /\ [][RepoNext]_vars

\* the request id a new call gets: the lowest that is free
FreeReq ==
  { r \in ReqIds : inflight[r] = Idle /\ \A q \in ReqIds : inflight[q] = Idle => r <= q }

\* The program: calls of the handlers that run at the same time.  A handler
\* that awaits takes one step up to each await and the other calls take theirs
\* in between; a handler that awaits nothing is one step.  The repository is
\* connected, resynced and deleted, its issues are closed on the tracker,
\* the clock advances, and the sessions of issue 101 are scoped,
\* polled, executed, cancelled, listed and swept.
Next ==
  \/ \E r \in FreeReq : ConnectCall(r, GoodUrl, PatPush)
  \/ \E r \in ReqIds : ConnectLookedUp(r, 200)
  \/ \E r \in FreeReq : ResyncCall(r, RepoId)
  \/ \E r \in ReqIds : ListingAnswered(r, 200)
  \/ DeleteRepo(RepoId)
  \/ TrackerChanges(RepoId, << >>)
  \/ Tick
  \/ \E r \in FreeReq : ScopeCall(r, 101, "text")
  \/ \E r \in ReqIds : ScopeFileRead(r)
  \/ \E r \in ReqIds, create \in {"ok", "http_error"} :
       /\ create = "ok" => NextSessionId \in OneSession
       /\ ScopeCreated(r, create)
  \/ \E r \in FreeReq, s \in agent_sessions : PollCall(r, s)
  \/ \E r \in ReqIds : PollGotSession(r, "ok", "completed", None, << >>)
  \/ \E r \in ReqIds : PollNudged(r, "ok")
  \/ \E r \in ReqIds : PollPrReturned(r, TRUE)
  \/ \E r \in FreeReq, s \in OneSession :
       ExecuteCall(r, 101, s, << "hotfix", "develop" >>, TRUE)
  \/ \E r \in ReqIds :
       /\ inflight[r].op = "Execute"
       /\ \E send \in CallOutcomes(inflight[r].sid) \ {"network"} : ExecuteSent(r, send)
  \/ \E s \in OneSession : Cancel(s)
  \/ CleanupExpired
  \/ ListActive

Spec == Init /\ [][Next]_vars

\* Queries of the cache of one repository.  The tracker lists up to MaxCached
\* of six open issues, in any order; two of them were created in the same hour
\* and have titles that differ in case only, and two have titles with a space,
\* a digit, signs and a letter that is not ASCII.  A Connect caches the listing
\* and every query of QueryInputs is made on it, page after page.
IssuePool ==
  { [id |-> 11, number |-> 1, title |-> << "A", "b" >>, is_pr |-> FALSE,
     labels |-> << "bug" >>, created_at |-> -30],
    [id |-> 12, number |-> 2, title |-> << "a", "b" >>, is_pr |-> FALSE,
     labels |-> << "Bug", "ui" >>, created_at |-> -30],
    [id |-> 13, number |-> 3, title |-> << "b" >>, is_pr |-> FALSE,
     labels |-> << >>, created_at |-> -80],
    [id |-> 14, number |-> 4, title |-> << "B", "a", "b" >>, is_pr |-> FALSE,
     labels |-> << "ui", "bug" >>, created_at |-> -5],
    [id |-> 15, number |-> 5, title |-> << "b", " ", "#", "1" >>, is_pr |-> FALSE,
     labels |-> << "ui" >>, created_at |-> -50],
    [id |-> 16, number |-> 6, title |-> << "B", "{", "É" >>, is_pr |-> FALSE,
     labels |-> << >>, created_at |-> -60] }
QueryListings ==
  { l \in UNION { [1..n -> IssuePool] : n \in 0..MaxCached } :
      \A i, j \in 1..Len(l) : l[i] = l[j] => i = j }

Asc == Str(<< "a", "s", "c" >>)
Desc == Str(<< "d", "e", "s", "c" >>)
\* the first page of every query: every filter, an empty text and label, every
\* sort field and one that is not valid, every order, one in capitals and none,
\* in pages of one and of two
FilterInputs ==
  [ q : {NoStr, Str(<< >>), Str(<< "a" >>), Str(<< "A", "B" >>)},
    label : {NoLabel, Label(""), Label("bug")},
    page : {1},
    pageSize : {1, 2},
    sort_by : {"created_at", "age_days", "title", "number", "author"},
    sort_order : {NoStr, Asc, Desc, Str(<< "D", "E", "S", "C" >>)} ]
\* texts with a sign, a digit and a letter that is not ASCII, in both cases
SignInputs ==
  [ q : {Str(<< "#", "1" >>), Str(<< "{", "é" >>), Str(<< "É" >>)},
    label : {NoLabel},
    page : {1},
    pageSize : {2},
    sort_by : {"created_at", "title"},
    sort_order : {Asc, Desc} ]
\* page numbers and page sizes below 1, which get_issues does not refuse
OffPageInputs ==
  [ q : {NoStr},
    label : {NoLabel},
    page : {-1, 0},
    pageSize : {1, 2},
    sort_by : {"number"},
    sort_order : {Asc, Desc} ]
  \cup
  [ q : {NoStr},
    label : {NoLabel},
    page : {1},
    pageSize : {-1, 0},
    sort_by : {"number"},
    sort_order : {Asc, Desc} ]
QueryInputs == FilterInputs \cup SignInputs \cup OffPageInputs

QueryInit ==
  /\ repos_store = [r \in {} |-> 0]
  /\ issues_store = [r \in {} |-> 0]
  /\ cache_order = << >>
  /\ sessions_store = [s \in {} |-> 0]
  /\ pr_creation_store = [s \in {} |-> 0]
  /\ now = 0
  /\ agent_sessions = {}
  /\ pr_opened = [s \in AllSessionIds |-> 0]
  /\ pr_failed = {}
  /\ inflight = [r \in ReqIds |-> Idle]
  /\ tracker \in [{RepoId} -> QueryListings]
  /\ repo_refs = NoRefs
  /\ last = Obs("Init", "", 200, "")

\* a client makes a query and asks for its pages one after the other, up to
\* page MaxPage
FirstPage ==
  /\ last.op # "GetIssues"
  /\ \E query \in QueryInputs : GetIssuesCall(TheCall, RepoId, query, FALSE)
NextPage ==
  /\ last.op = "GetIssues" /\ last.code = 200
  /\ last.query.page < MaxPage
  /\ GetIssuesCall(TheCall, RepoId, [last.query EXCEPT !.page = @ + 1], FALSE)

QueryNext ==
  \/ ConnectOk(TheCall, GoodUrl)
  \/ FirstPage
  \/ NextPage

QuerySpec == QueryInit /\ [][QueryNext]_vars

\* ------------------------------------------------------ error messages
\* The detail of an error as the pieces of its text.  A text an upstream
\* response or an exception carries is a sequence of pieces; a piece is a
\* secret (a credential or the API key) or other text.
DEVIN_API_KEY == "devin-api-key"
Redacted == "[REDACTED]"
\* secret in text
In(secret, text) == \E i \in 1..Len(text) : text[i] = secret
\* text.replace(old, new)
Replace(text, old, new) == [i \in 1..Len(text) |-> IF text[i] = old THEN new ELSE text[i]]

\* DevinAPIService.create_session, get_session, send_message on a status that
\* is not 200 (lines 375-380, 400-405, 432-437): the response text is added
\* unless it is empty or has the API key in it
ServiceErrorDetail(prefix, response_text) ==
  IF response_text # << >> /\ ~In(DEVIN_API_KEY, response_text)
    THEN << prefix, "status" >> \o << " - " >> \o response_text
  ELSE << prefix, "status" >>

\* the except Exception blocks of scope_issue, get_devin_session,
\* send_message_to_devin and execute_plan (lines 1107-1114, 1213-1220,
\* 1238-1246, 1328-1334): the API key is replaced in str(e)
HandlerErrorDetail(prefix, exception_text) ==
  << prefix >> \o (IF In(DEVIN_API_KEY, exception_text)
                     THEN Replace(exception_text, DEVIN_API_KEY, Redacted)
                   ELSE exception_text)

\* the except Exception block of connect_repo (lines 698-705): the token of
\* the request is replaced in str(e)
ConnectErrorDetail(pat, exception_text) ==
  << "Internal server error: " >> \o (IF In(pat, exception_text)
                                        THEN Replace(exception_text, pat, Redacted)
                                      ELSE exception_text)

\* the except Exception block of resync_repo (lines 807-814): a fixed text
ResyncErrorDetail(pat, exception_text) == << "Internal server error occurred" >>

\* how a call of the agent service fails with a text: "http_error", a status
\* that is not 200 with a response text; "network", an exception with a text
ErrorDetail(prefix, failure, text) ==
  IF failure = "http_error" THEN ServiceErrorDetail(prefix, text)
  ELSE HandlerErrorDetail(prefix, text)

\* scope_issue when create_session fails
ScopeError(r, create, text) ==
  LET c == inflight[r]
  IN /\ c.op = "Scope" /\ c.pc = "create_session"
     /\ create \in {"http_error", "network"}
     /\ inflight' = [inflight EXCEPT ![r] = Idle]
     /\ last' = [Obs("Scope", "", 500,
                      IF create = "http_error" THEN "agent_error" ELSE "agent_unreachable")
                   EXCEPT
                   !.issue = c.issue_id,
                   !.error = ErrorDetail("Failed to create Devin session: ", create, text)]
     /\ UNCHANGED << stores, now, tracker, agent_sessions, pr_opened, pr_failed >>

\* get_devin_session when get_session fails
PollError(r, get, text) ==
  LET c == inflight[r]
  IN /\ c.op = "Poll" /\ c.pc = "get_session"
     /\ get \in {"http_error", "network"}
     /\ inflight' = [inflight EXCEPT ![r] = Idle]
     /\ last' = [Obs("Poll", c.sid, 500, get) EXCEPT
                   !.error = ErrorDetail("Failed to retrieve Devin session: ", get, text)]
     /\ UNCHANGED << stores, now, tracker, agent_sessions, pr_opened, pr_failed >>

\* send_message_to_devin when send_message fails
SendFollowupError(sid, send, text) ==
  /\ send \in {"http_error", "network"}
  /\ last' = [Obs("SendFollowup", sid, 500, send) EXCEPT
                !.sent = 1,
                !.error = ErrorDetail("Failed to send message to Devin session: ", send, text)]
  /\ UNCHANGED << stores, now, tracker, inflight, agent_sessions, pr_opened, pr_failed >>

\* execute_plan when send_message fails; the service's own detail is passed
\* on, an exception is reported as a failure to execute
ExecuteError(r, send, text) ==
  LET c == inflight[r]
  IN /\ c.op = "Execute" /\ c.pc = "send_message"
     /\ send \in {"http_error", "network"}
     /\ inflight' = [inflight EXCEPT ![r] = Idle]
     /\ repo_refs' = [repo_refs EXCEPT !.calls = @ \ {r}]
     /\ last' = [Obs("Execute", c.sid, 500, send) EXCEPT
                   !.approved = c.approved, !.sent = 1,
                   !.error = IF send = "http_error"
                               THEN ServiceErrorDetail("Failed to send message to Devin session: ", text)
                             ELSE HandlerErrorDetail("Failed to execute plan: ", text)]
     /\ UNCHANGED << repos_store, issues_store, cache_order, sessions_store,
                     pr_creation_store, now, tracker, agent_sessions, pr_opened, pr_failed >>

\* connect_repo when something other than an HTTPException or a transport
\* error is raised between the lookup and the writes to the stores
ConnectError(r, text) ==
  LET c == inflight[r]
  IN /\ c.op = "Connect"
     /\ inflight' = [inflight EXCEPT ![r] = Idle]
     /\ last' = [Obs("Connect", "", 500, "internal") EXCEPT
                   !.error = ConnectErrorDetail(c.pat, text)]
     /\ UNCHANGED << stores, now, tracker, agent_sessions, pr_opened, pr_failed >>

\* resync_repo when something other than an HTTPException or a transport
\* error is raised before the writes to the stores
ResyncError(r, text) ==
  LET c == inflight[r]
  IN /\ c.op = "Resync"
     /\ inflight' = [inflight EXCEPT ![r] = Idle]
     /\ last' = [Obs("Resync", "", 500, "internal") EXCEPT
                   !.repo = c.repo_id,
                   !.error = ResyncErrorDetail(c.pat, text)]
     /\ UNCHANGED << stores, now, tracker, agent_sessions, pr_opened, pr_failed >>

\* The failing calls with every text of up to MaxTextLen pieces, a piece being
\* the token of the connected repository, the API key or other text; a
\* repository is connected and a session is scoped so that every call gets as
\* far as the upstream.  One call at a time.
UpstreamTexts == UNION { [1..n -> {PatPush, DEVIN_API_KEY, "oops"}] : n \in 0..MaxTextLen }
ErrorNext ==
  \/ \E pat \in {PatPush, PatReadOnly} : ConnectCall(TheCall, GoodUrl, pat)
  \/ ConnectLookedUp(TheCall, 200)
  \/ ResyncCall(TheCall, RepoId)
  \/ ListingAnswered(TheCall, 200)
  \/ ScopeOk(OneSession, TheCall, 101)
  \/ \E sid \in OneSession : PollCall(TheCall, sid)
  \/ \E sid \in OneSession :
       ExecuteCall(TheCall, 101, sid, << "hotfix", "develop" >>, TRUE)
  \/ \E text \in UpstreamTexts :
       \/ ConnectError(TheCall, text)
       \/ ResyncError(TheCall, text)
       \/ \E failure \in {"http_error", "network"} :
            \/ ScopeError(TheCall, failure, text)
            \/ PollError(TheCall, failure, text)
            \/ Quiet /\ \E sid \in OneSession : SendFollowupError(sid, failure, text)
            \/ ExecuteError(TheCall, failure, text)

ErrorSpec == Init /\ [][ErrorNext]_vars

\* Calls of extract_structured_output_from_messages on the transcripts of up
\* to MaxMessages messages.  A message of the agent holds no block, one block
\* or two; a block holds an object with the three keys, one without them, one
\* with a member that is an object, an empty one, one with a comma before the
\* closing brace, one that is not closed, or one with a note behind the
\* object; a fence without the word json opens no block.  The other messages
\* are a user's, one whose text is null, one without text, and a value that
\* is not an object.
Note == Token("note")
Nested ==
  << JsonFence, Ws, LBrace, Members(ValidOutput("running")), Comma, NestedKey, Ws,
     LBrace, RBrace, RBrace, Ws, Fence >>
Trailing ==
  << JsonFence, Ws, LBrace, Members([status |-> "completed"]), RBrace, Ws, Note, Ws, Fence >>
PlainFence == << Fence, Ws >> \o Object(ValidOutput("completed")) \o << Ws, Fence >>
Blocked == Block(ValidOutput("blocked"))
Completed == Block(ValidOutput("completed"))
NoKeys == Block([status |-> "completed"])
MessageInputs ==
  { DevinMsg(blocks) :
      blocks \in { << >>, << Blocked >>, << Completed >>, << NoKeys >>,
                   << Block(EmptyDict) >>, << Nested >>, << PlainFence >>,
                   << Malformed, Blocked >>, << Unterminated, Blocked >>,
                   << Trailing, Completed >>, << NoKeys, Completed >>,
                   << Blocked, Completed >> } }
    \cup { UserMsg(<< Blocked >>), NullMsg, NoTextMsg, NotADict }
ExtractInputs == UNION { [1..n -> MessageInputs] : n \in 0..MaxMessages }

ExtractInit ==
  /\ repos_store = [r \in {} |-> 0]
  /\ issues_store = [r \in {} |-> 0]
  /\ cache_order = << >>
  /\ sessions_store = [s \in {} |-> 0]
  /\ pr_creation_store = [s \in {} |-> 0]
  /\ now = 0
  /\ agent_sessions = {}
  /\ pr_opened = [s \in {} |-> 0]
  /\ pr_failed = {}
  /\ inflight = [r \in ReqIds |-> Idle]
  /\ tracker = [r \in {RepoId} |-> TrackerPage1]
  /\ repo_refs = NoRefs
  /\ \E messages \in ExtractInputs :
       last = [Obs("Init", "", 200, "") EXCEPT !.messages = messages]

\* one call of the function on the transcript
Extract ==
  /\ last.op = "Init"
  /\ \E r \in {extract_structured_output_from_messages(last.messages)} :
       last' = [Obs("Extract", "", IF r.raised THEN 500 ELSE 200,
                    IF r.raised THEN "raised" ELSE "")
                  EXCEPT !.so = r.so, !.messages = last.messages]
  /\ UNCHANGED << stores, now, agent_sessions, pr_opened, pr_failed, inflight, tracker >>

ExtractSpec == ExtractInit /\ [][Extract]_vars

\* ------------------------------------------------------------- claims
HasIntent(s) == s \in DOMAIN pr_creation_store
PrCreated(s) == HasIntent(s) /\ pr_creation_store[s].pr_created
PollReturned == last.op = "Poll" /\ last.code = 200
SaysCompleted(o) == o.status = "completed" \/ GetIs(o.so.d, "status", "completed")

\* C1: polling a completed session that has an intent, any number of times,
\* with the tracker creating the pull request when asked, makes one PR-create
\* call: since the intent was recorded at most one call has succeeded, the flag
\* is set exactly when one has, and a poll that finds the flag set calls nothing.
C1_OneCallPerCompletedSession ==
  /\ \A s \in DOMAIN pr_creation_store :
       /\ pr_opened[s] <= 1
       /\ pr_creation_store[s].pr_created <=> pr_opened[s] = 1
  /\ (PollReturned /\ last.pr_calls = 1 /\ last.pr_ok) => PrCreated(last.sid)

\* a later poll of the completed session, after the pull request was created
C1_Witness ==
  /\ PollReturned /\ last.status = "completed" /\ last.pr_calls = 0
  /\ PrCreated(last.sid) /\ pr_opened[last.sid] = 1

\* C2: pr_created goes from false to true at most once and is never set back
\* to false.
C2_PrCreatedNeverReset ==
  [][\A s \in AllSessionIds : PrCreated(s) => PrCreated(s)']_vars

\* C3: a successful Execute with approved = true leaves the (stored) session in
\* phase executing and an intent for it that holds the branch and target of the
\* request and pr_created = false.
C3_ExecuteRecordsIntent ==
  (last.op = "Execute" /\ last.code = 200) =>
    /\ last.approved
    /\ HasIntent(last.sid)
    /\ pr_creation_store[last.sid].branch_name = last.branch
    /\ pr_creation_store[last.sid].target_branch = last.target
    /\ pr_creation_store[last.sid].pr_created = FALSE
    /\ (last.sid \in DOMAIN sessions_store =>
          sessions_store[last.sid].status = "executing")

C3_Witness ==
  /\ last.op = "Execute" /\ last.code = 200 /\ last.branch = "hotfix"
  /\ last.sid \in DOMAIN sessions_store
  /\ sessions_store[last.sid].status = "executing"

\* C4: Execute with approved = false fails with the conflict error and has no
\* side effect: no message goes to the agent service and no store changes.
C4_UnapprovedExecuteNoEffect ==
  [][(last'.op = "Execute" /\ ~last'.approved) =>
       /\ last'.code = 400 /\ last'.detail = "not_approved"
       /\ last'.sent = 0
       /\ UNCHANGED << stores, agent_sessions, pr_opened, pr_failed, now >>]_vars

\* an unapproved Execute on a blocked session, which an approved one would start
C4_Witness ==
  /\ last.op = "Execute" /\ ~last.approved /\ last.code = 400
  /\ last.sid \in DOMAIN sessions_store
  /\ sessions_store[last.sid].status = "blocked"
  /\ IssueFound(sessions_store[last.sid].issue_id)

\* C5: when the PR-create call of a Poll succeeds, pr_created becomes true and
\* the structured output the Poll returns has pr_url = the created pull
\* request's URL, also when the Poll had no structured output of its own.
C5_PrUrlReturned ==
  (PollReturned /\ last.pr_calls = 1 /\ last.pr_ok) =>
    /\ PrCreated(last.sid)
    /\ last.so.some
    /\ GetIs(last.so.d, "pr_url", PrUrl)

C5_Witness ==
  /\ PollReturned /\ last.pr_calls = 1 /\ last.pr_ok /\ last.fallback = "none"
  /\ PrCreated(last.sid)

\* C6: when the PR-create call of a Poll fails, pr_created stays false and the
\* Poll returns its normal response: status and structured output, no error.
C6_PrFailureIsolated ==
  (last.op = "Poll" /\ last.pr_calls = 1 /\ ~last.pr_ok) =>
    /\ last.code = 200
    /\ SaysCompleted(last)
    /\ ~GetIs(last.so.d, "pr_url", PrUrl)
    /\ HasIntent(last.sid) /\ ~PrCreated(last.sid)
    /\ pr_opened[last.sid] = 0 /\ last.sid \in pr_failed

C6_Witness ==
  /\ PollReturned /\ last.pr_calls = 1 /\ ~last.pr_ok
  /\ last.so.some /\ ~PrCreated(last.sid)

\* C7: a Poll calls the PR-create capability if and only if the upstream status
\* or the structured output's status is completed, an intent exists for the
\* session and its pr_created is false; and then it calls it once.
C7_TriggerCondition ==
  [][(last'.op = "Poll" /\ last'.code = 200) =>
       /\ last'.pr_calls \in {0, 1}
       /\ last'.pr_calls = 1 <=>
            /\ SaysCompleted(last')
            /\ HasIntent(last'.sid)
            /\ ~pr_creation_store[last'.sid].pr_created]_vars

\* the trigger fired on the structured output's status alone
C7_Witness ==
  /\ PollReturned /\ last.pr_calls = 1 /\ last.status = "blocked"
  /\ GetIs(last.so.d, "status", "completed")

\* C8: while a session has an intent with pr_created = false, Polls that report
\* it completed keep coming and the tracker creates the pull request when asked,
\* the pull request is eventually created and pr_created becomes true; and every
\* Poll that reports completed while pr_created is false calls PR-create again.
C8_RetryUntilCreated ==
  /\ \A s \in AllSessionIds :
       (HasIntent(s) /\ ~PrCreated(s)) ~> (PrCreated(s) /\ pr_opened[s] = 1)
  /\ [][(/\ last'.op = "Poll" /\ last'.code = 200 /\ SaysCompleted(last')
         /\ HasIntent(last'.sid) /\ ~PrCreated(last'.sid))
        => last'.pr_calls = 1]_vars

\* the pull request was created by a Poll that came after a failed attempt
C8_Witness ==
  /\ PollReturned /\ last.pr_calls = 1 /\ last.pr_ok
  /\ PrCreated(last.sid) /\ last.retried

\* C9: a Poll with upstream status blocked or completed, no structured output
\* from the agent service and nothing extractable from the transcript returns
\* a synthesized placeholder, not null.
C9_PlaceholderSynthesized ==
  (PollReturned /\ last.status \in {"blocked", "completed"} /\ last.fallback = "none") =>
    /\ last.so.some
    /\ {"progress_pct", "status", "summary"} \subseteq DOMAIN last.so.d

\* C10: every issue has at most one stored session that is neither completed
\* nor cancelled.
NonTerminal(issue_id) ==
  { s \in DOMAIN sessions_store :
      /\ sessions_store[s].issue_id = issue_id
      /\ sessions_store[s].status \notin {"completed", "cancelled"} }
C10_OneNonTerminalSessionPerIssue ==
  \A i \in IssueIdInputs : Cardinality(NonTerminal(i)) <= 1

\* C11: once a stored session's phase is cancelled, no later call changes it
\* to anything else for as long as the session is stored.
C11_CancelledIsTerminal ==
  [][\A s \in AllSessionIds :
       (/\ s \in DOMAIN sessions_store /\ sessions_store[s].status = "cancelled"
        /\ s \in DOMAIN sessions_store')
       => sessions_store'[s].status = "cancelled"]_vars

\* C12: Cancel of a stored session that is already cancelled succeeds and
\* leaves the whole state, that session's last_accessed included, as it was.
C12_CancelIdempotent ==
  [][(/\ last'.op = "Cancel" /\ last'.sid \in DOMAIN sessions_store
      /\ sessions_store[last'.sid].status = "cancelled")
     => /\ last'.code = 200
        /\ UNCHANGED << stores, agent_sessions, now >>]_vars

\* C15: the phase of every stored session is one of the six phases, and a Poll
\* that the agent service answers returns one of them and does not fail.
Phases == {"scoping", "blocked", "executing", "completed", "cancelled", "unknown"}
C15_PhaseInSet ==
  /\ \A s \in DOMAIN sessions_store : sessions_store[s].status \in Phases
  /\ (last.op = "Poll" /\ last.status # "") =>
        (last.code = 200 /\ last.status \in Phases)

\* C16: an approved Execute on a stored session whose phase is not blocked
\* neither changes the phase nor records or overwrites an intent.
C16_ExecuteOnlyFromBlocked ==
  [][(/\ last'.op = "Execute" /\ last'.approved
      /\ last'.sid \in DOMAIN sessions_store
      /\ sessions_store[last'.sid].status # "blocked")
     => /\ sessions_store'[last'.sid].status = sessions_store[last'.sid].status
        /\ pr_creation_store' = pr_creation_store]_vars

\* C17: SendFollowup sends one message to the agent session and changes no
\* store, whether the agent service accepts the message or not.
C17_SendFollowupFrame ==
  [][last'.op = "SendFollowup" =>
       /\ last'.sent = 1
       /\ UNCHANGED << stores, agent_sessions, pr_opened, pr_failed, now >>]_vars

\* a follow-up accepted for a stored session that was last touched a day ago
C17_Witness ==
  /\ last.op = "SendFollowup" /\ last.code = 200
  /\ last.sid \in DOMAIN sessions_store
  /\ sessions_store[last.sid].last_accessed < now
  /\ last.sid \in DOMAIN pr_creation_store

\* C20: a Connect whose credential has no push access (URL and repository
\* lookup being fine) fails with the permission error, makes no issue-listing
\* request and leaves the repository map and the issue cache as they were.
C20_NoPushStoresNothing ==
  [][/\ last'.op = "ConnectCall" => UNCHANGED stores
     /\ \A r \in ReqIds :
          (/\ inflight[r].op = "Connect" /\ inflight[r].pc = "repo_lookup"
           /\ inflight[r].pat = PatReadOnly /\ inflight[r].url = GoodUrl
           /\ ConnectLookedUp(r, 200))
          => /\ last'.code = 400 /\ last'.detail = "no_push_access"
             /\ last'.list_calls = 0
             /\ inflight'[r] = Idle
             /\ UNCHANGED stores]_vars

\* the refused Connect of a repository that was not connected before
C20_Witness ==
  /\ last.op = "Connect" /\ last.detail = "no_push_access"
  /\ RepoId \notin DOMAIN repos_store /\ RepoId \notin DOMAIN issues_store

\* C13: ListActive returns exactly the stored sessions whose phase is neither
\* completed nor cancelled, each with its issue's title and repository's name.
C13_ListActiveNonTerminal ==
  last.op = "ListActive" =>
    /\ { row.session_id : row \in last.rows } =
         { s \in DOMAIN sessions_store :
             sessions_store[s].status \notin {"completed", "cancelled"} }
    /\ \A row \in last.rows :
         /\ row.issue_title = FindIssue(row.issue_id).issue.title
         /\ row.repo_name = repos_store[FindIssue(row.issue_id).repo_id].name

\* C14: a CleanupExpired sweep removes every session last touched more than
\* a session lifetime ago, which is then absent from ListActive, and keeps
\* every other session as it is; a Poll, an Execute and a Cancel that succeed
\* on a stored session set its last_accessed to the current time.
C14_SweepByLastAccessed ==
  [][/\ last'.op = "CleanupExpired" =>
          \A s \in DOMAIN sessions_store :
            IF sessions_store[s].last_accessed < now - SESSION_TTL_HOURS
              THEN /\ s \notin DOMAIN sessions_store'
                   /\ s \notin { row.session_id : row \in ActiveSessionRows' }
            ELSE /\ s \in DOMAIN sessions_store'
                 /\ sessions_store'[s] = sessions_store[s]
     /\ (/\ last'.op \in {"Poll", "Execute", "Cancel"} /\ last'.code = 200
         /\ last'.sid \in DOMAIN sessions_store)
        => sessions_store'[last'.sid].last_accessed = now]_vars

\* a sweep that removed one session and kept one that was last touched exactly
\* one session lifetime ago, after a Poll had touched it
C14_Witness ==
  /\ last.op = "CleanupExpired"
  /\ agent_sessions \ DOMAIN sessions_store # {}
  /\ \E s \in DOMAIN sessions_store :
       /\ sessions_store[s].last_accessed = now - SESSION_TTL_HOURS
       /\ sessions_store[s].last_accessed > 0
       /\ sessions_store[s].status = "blocked"

\* C18: Polls of one completed session with an intent, run at the same time
\* and interleaving at their awaits, call PR-create at most once in total.
PrCallsOf(s) ==
  { r \in ReqIds : /\ inflight[r].op = "Poll" /\ inflight[r].sid = s
                   /\ inflight[r].pr_calls = 1 }
C18_OnePrCallUnderInterleaving ==
  \A s \in AllSessionIds : Cardinality(PrCallsOf(s)) <= 1

\* C19: under interleaved Connect, Delete, Resync and load-more calls a
\* repository id has an issue cache exactly when it has a repository record.
C19_CacheIffRepository ==
  DOMAIN issues_store = DOMAIN repos_store

\* the items of the first page of the tracker's listing that are no pull
\* requests, in the tracker's order
FirstPageIssues(repo_id) ==
  LET NotPullRequest(it) == ~it.is_pr
  IN SelectSeq(SubSeq(tracker[repo_id], 1, Min(PER_PAGE, Len(tracker[repo_id]))),
               NotPullRequest)
\* the cache holds exactly these items, in this order
SameItems(cache, items) ==
  /\ Len(cache) = Len(items)
  /\ \A i \in 1..Len(items) :
       /\ cache[i].id = items[i].id /\ cache[i].number = items[i].number
       /\ cache[i].title = items[i].title /\ cache[i].labels = items[i].labels
       /\ cache[i].created_at = items[i].created_at
Synced(o) == o.op \in {"Connect", "Resync"} /\ o.code = 200

\* C21: after a successful Connect or Resync of a repository its cache is
\* exactly the non-pull-request items of the tracker's first page, in tracker
\* order, whatever was cached before, and the fetched count and the open-issue
\* count are the length of the new cache.
C21_CacheIsFirstPage ==
  [][Synced(last') =>
       /\ SameItems(issues_store'[last'.repo], FirstPageIssues(last'.repo))
       /\ repos_store'[last'.repo].github_issues_fetched_count
            = Len(issues_store'[last'.repo])
       /\ repos_store'[last'.repo].openIssuesCount = Len(issues_store'[last'.repo])]_vars
\* a resync after the tracker's listing grew to more than a page: the cache is
\* the 90 issues of the first page; and a connect that cached 2 issues of 3 items
C21_Witness ==
  /\ last.op = "Resync" /\ last.code = 200 /\ last.repo = RepoId
  /\ tracker[RepoId] = LongListing
  /\ Len(issues_store[RepoId]) = 90
  /\ GadgetsId \in DOMAIN issues_store /\ Len(issues_store[GadgetsId]) = 2

\* the first page of the tracker's listing was full
FirstPageFull(repo_id) == Len(TrackerPage(repo_id, 1)) = PER_PAGE

\* C22: after a successful Connect or Resync the stored cursor describes the
\* fetch that was made: last_page is 1, the page fetched, and has_more is
\* true exactly when that page was full.
C22_CursorDescribesFetch ==
  [][Synced(last') =>
       /\ repos_store'[last'.repo].github_last_page = 1
       /\ repos_store'[last'.repo].github_has_more_pages = FirstPageFull(last'.repo)]_vars

FetchedMore(o) == o.op = "GetIssues" /\ o.code = 200 /\ o.load_more
\* the cache grew by exactly the issues of one page of the listing
AppendedPage(old, new, repo_id, page) ==
  LET NotPullRequest(it) == ~it.is_pr
  IN /\ Len(new) >= Len(old)
     /\ SubSeq(new, 1, Len(old)) = old
     /\ SameItems(SubSeq(new, Len(old) + 1, Len(new)),
                  SelectSeq(TrackerPage(repo_id, page), NotPullRequest))
\* the has_more of the cursor a Query finds: straight after a successful
\* Connect or Resync of the repository it is the has_more that describes that
\* fetch, true exactly when the first page was full (C22); otherwise it is the
\* flag that is stored
CursorHasMore(repo_id) ==
  IF Synced(last) /\ last.repo = repo_id THEN FirstPageFull(repo_id)
  ELSE repos_store[repo_id].github_has_more_pages

Removed(old, new, k) ==
  /\ DOMAIN new = DOMAIN old \ {k}
  /\ \A o \in DOMAIN new : new[o] = old[o]

\* C24: a successful Delete removes the repository's record and its whole
\* issue cache and leaves the record and the cache of every other repository
\* as they were.
C24_DeleteRemovesOneRepository ==
  [][(last'.op = "DeleteRepo" /\ last'.code = 200) =>
       /\ last'.repo \in DOMAIN repos_store
       /\ Removed(repos_store, repos_store', last'.repo)
       /\ Removed(issues_store, issues_store', last'.repo)]_vars
\* acme/widgets was deleted while acme/gadgets is connected with its two issues
C24_Witness ==
  /\ last.op = "DeleteRepo" /\ last.code = 200 /\ last.repo = RepoId
  /\ RepoId \notin DOMAIN repos_store /\ RepoId \notin DOMAIN issues_store
  /\ GadgetsId \in DOMAIN repos_store
  /\ GadgetsId \in DOMAIN issues_store /\ Len(issues_store[GadgetsId]) = 2

\* C25: Delete, Resync and Query on a repository id that is not connected fail
\* with not-found and leave the repository map, the issue caches and the
\* session maps as they were; no listing request is made.
C25_NotConnectedIsNotFound ==
  [][(last'.op \in {"DeleteRepo", "Resync", "GetIssues"}
        /\ last'.repo \notin DOMAIN repos_store) =>
       /\ last'.code = 404
       /\ last'.list_calls = 0
       /\ repos_store' = repos_store /\ issues_store' = issues_store
       /\ sessions_store' = sessions_store
       /\ pr_creation_store' = pr_creation_store]_vars
\* a Resync of acme/gadgets, not connected, was refused while acme/widgets is
\* connected and a session is stored
C25_Witness ==
  /\ last.op = "Resync" /\ last.code = 404 /\ last.repo = GadgetsId
  /\ GadgetsId \notin DOMAIN repos_store
  /\ RepoId \in DOMAIN repos_store
  /\ sessions_store # << >>

Queried(o) == o.op = "GetIssues" /\ o.code = 200
\* the letters among the characters, capital and small, pair by pair
Capitals ==
  << "A", "B", "C", "D", "E", "F", "G", "H", "I", "J", "K", "L", "M",
     "N", "O", "P", "Q", "R", "S", "T", "U", "V", "W", "X", "Y", "Z",
     "À", "Á", "Â", "Ã", "Ä", "Å", "Æ", "Ç", "È", "É", "Ê", "Ë", "Ì",
     "Í", "Î", "Ï", "Ð", "Ñ", "Ò", "Ó", "Ô", "Õ", "Ö", "Ø", "Ù", "Ú",
     "Û", "Ü", "Ý", "Þ" >>
Smalls ==
  << "a", "b", "c", "d", "e", "f", "g", "h", "i", "j", "k", "l", "m",
     "n", "o", "p", "q", "r", "s", "t", "u", "v", "w", "x", "y", "z",
     "à", "á", "â", "ã", "ä", "å", "æ", "ç", "è", "é", "ê", "ë", "ì",
     "í", "î", "ï", "ð", "ñ", "ò", "ó", "ô", "õ", "ö", "ø", "ù", "ú",
     "û", "ü", "ý", "þ" >>
\* two characters are the same letter, whatever their case
SameLetter(a, b) ==
  a = b \/ \E k \in 1..Len(Capitals) : {a, b} = {Capitals[k], Smalls[k]}
\* the title has the text in it, case not counting
HasText(title, text) ==
  \E at \in 0..(Len(title) - Len(text)) :
     \A k \in 1..Len(text) : SameLetter(title[at + k], text[k])
\* the issue passes the filters that are in force; an empty text or label is
\* not in force
PassesFilters(issue, query) ==
  /\ (query.q.given /\ query.q.s # << >>) => HasText(issue.title, query.q.s)
  /\ (query.label.given /\ query.label.s # "") =>
        \E k \in 1..Len(issue.labels) : issue.labels[k] = query.label.s
Matching(cache, query) == {i \in 1..Len(cache) : PassesFilters(cache[i], query)}
Ids(issues) == {issues[i].id : i \in 1..Len(issues)}
\* the issue passes every filter that is given: its title has the text q in
\* it, and the label L is one of its labels
MeetsFilters(issue, query) ==
  /\ query.q.given => HasText(issue.title, query.q.s)
  /\ query.label.given =>
        \E k \in 1..Len(issue.labels) : issue.labels[k] = query.label.s
Meeting(cache, query) == {i \in 1..Len(cache) : MeetsFilters(cache[i], query)}

\* C26: the filtered set Query pages over is exactly the cached issues whose
\* title contains q, case not counting, when q is given, and whose labels have
\* L as a member, when L is given: every returned issue passes both filters,
\* the size reported is the number of the cached issues that pass, and the
\* set paged over leaves none out.
C26_FilteredSetIsTheMatches ==
  [][Queried(last') =>
       LET cache == issues_store'[last'.repo]
           matches == {cache[i].id : i \in Meeting(cache, last'.query)}
       IN /\ \A k \in 1..Len(last'.issues) :
               /\ MeetsFilters(last'.issues[k], last'.query)
               /\ last'.issues[k].id \in matches
          /\ last'.total = Cardinality(matches)
          /\ Ids(QueryFiltered(cache, last'.query)) = matches]_vars

\* where an issue stands in the cache
CacheIndex(cache, id) == CHOOSE i \in 1..Len(cache) : cache[i].id = id
\* the key of the sort field of x is below that of y: the title itself, by
\* code point, the age, the number or the time of creation
SortKeyLess(sort_by, x, y) ==
  IF sort_by = "title" THEN StrLess(x.title, y.title)
  ELSE IF sort_by = "age_days" THEN x.age_days < y.age_days
  ELSE IF sort_by = "number" THEN x.number < y.number
  ELSE x.created_at < y.created_at
\* the sequence is monotonic in the key of the sort field under the order, and
\* issues with equal keys stand as they stand in the cache
SortedBy(issues, cache, sort_by, descending) ==
  \A i, j \in 1..Len(issues) :
     i < j =>
       /\ IF descending THEN ~SortKeyLess(sort_by, issues[i], issues[j])
                        ELSE ~SortKeyLess(sort_by, issues[j], issues[i])
       /\ (/\ ~SortKeyLess(sort_by, issues[i], issues[j])
           /\ ~SortKeyLess(sort_by, issues[j], issues[i]))
            => CacheIndex(cache, issues[i].id) < CacheIndex(cache, issues[j].id)
\* the page is the part of the sequence at the page's place; the pages are
\* numbered from 1 and a page holds at least one issue
PageOf(issues, page, pageSize) ==
  IF page < 1 \/ pageSize < 1 THEN << >>
  ELSE SubSeq(issues, (page - 1) * pageSize + 1, Min(page * pageSize, Len(issues)))

\* C27: for each of the sort fields created_at, age_days, title and number and
\* each of the orders asc and desc, the sequence Query pages over, and so every
\* page it returns, is monotonic in the key, and issues with equal keys are in
\* cache insertion order, in both orders.
C27_SortedAndStable ==
  [][(/\ Queried(last')
      /\ last'.query.sort_by \in {"created_at", "age_days", "title", "number"}
      /\ last'.query.sort_order \in {Asc, Desc}) =>
       \A all \in {QueryFiltered(issues_store'[last'.repo], last'.query)} :
       LET cache == issues_store'[last'.repo]
           descending == last'.query.sort_order = Desc
       IN /\ SortedBy(all, cache, last'.query.sort_by, descending)
          /\ SortedBy(last'.issues, cache, last'.query.sort_by, descending)]_vars

\* the pages first to last of a sequence, one behind the other
RECURSIVE ConcatPages(_, _, _, _)
ConcatPages(issues, pageSize, first, lastPage) ==
  IF first > lastPage THEN << >>
  ELSE Paginate(issues, first, pageSize) \o ConcatPages(issues, pageSize, first + 1, lastPage)
\* the number of pages that hold something
PagesOf(n, pageSize) == (n + pageSize - 1) \div pageSize

\* C28: for a fixed cache, filter, sort and page size of at least 1, the pages
\* 1, 2, 3, ... of Query put one behind the other are the whole filtered and
\* sorted sequence, once and in order; the page returned is the page of its
\* number, and the pages past the end are empty.
C28_PagesTileTheSequence ==
  [][(Queried(last') /\ last'.query.pageSize >= 1 /\ last'.query.page >= 1) =>
       \A all \in {QueryFiltered(issues_store'[last'.repo], last'.query)} :
       LET size == last'.query.pageSize
           page == last'.query.page
           full == PagesOf(Len(all), size)
       IN /\ last'.issues = Paginate(all, page, size)
          /\ ConcatPages(all, size, 1, full) = all
          /\ ConcatPages(all, size, 1, page - 1) \o last'.issues
               = SubSeq(all, 1, Min(page * size, Len(all)))
          /\ \A k \in (full + 1)..(full + MaxPage) : Paginate(all, k, size) = << >>
          /\ page > full => last'.issues = << >>]_vars
\* the third page of two of a cache of three issues is empty, and the second
\* page of the same query holds one issue
C28_Witness ==
  /\ Queried(last) /\ last.query.q = NoStr /\ last.query.label = NoLabel
  /\ last.query.pageSize = 2 /\ last.query.page = 3
  /\ Len(issues_store[RepoId]) = 3 /\ last.total = 3
  /\ last.issues = << >>
  /\ Len(QueryPage(issues_store[RepoId], [last.query EXCEPT !.page = 2])) = 1

\* The reference pipeline.  Its filter: the cached issues that pass every
\* filter that is given, in cache order.
ReferenceFiltered(cache, query) ==
  LET Meets(issue) == MeetsFilters(issue, query)
  IN SelectSeq(cache, Meets)
\* Its sort: an issue is put into the sorted sequence in front of the first
\* issue that the order puts strictly behind it, so that issues with equal
\* keys stay as they were.
RECURSIVE PutInOrder(_, _, _, _)
PutInOrder(ordered, x, sort_by, descending) ==
  IF ordered = << >> THEN << x >>
  ELSE IF (IF descending THEN SortKeyLess(sort_by, Head(ordered), x)
           ELSE SortKeyLess(sort_by, x, Head(ordered)))
    THEN << x >> \o ordered
  ELSE << Head(ordered) >> \o PutInOrder(Tail(ordered), x, sort_by, descending)
RECURSIVE StableSorted(_, _, _)
StableSorted(xs, sort_by, descending) ==
  IF xs = << >> THEN << >>
  ELSE PutInOrder(StableSorted(SubSeq(xs, 1, Len(xs) - 1), sort_by, descending),
                  xs[Len(xs)], sort_by, descending)
ReferenceSorted(cache, query) ==
  StableSorted(ReferenceFiltered(cache, query), query.sort_by, query.sort_order = Desc)

\* C29: for every query with one of the four sort fields and the order asc or
\* desc, the page Query returns is the page the reference pipeline filter,
\* stable sort, paginate makes of the cache, and the size reported is the size
\* of the filtered set, whatever the page and page size.
C29_QueryIsReferencePipeline ==
  [][(/\ Queried(last')
      /\ last'.query.sort_by \in {"created_at", "age_days", "title", "number"}
      /\ last'.query.sort_order \in {Asc, Desc}) =>
       \A reference \in {ReferenceSorted(issues_store'[last'.repo], last'.query)} :
          /\ last'.issues = PageOf(reference, last'.query.page, last'.query.pageSize)
          /\ last'.total = Len(ReferenceFiltered(issues_store'[last'.repo], last'.query))
          /\ last'.total = Len(reference)]_vars

\* C30: the age of every issue Query returns is the whole number of days
\* between the issue's created_at and the time of the Query, never a value
\* worked out at an earlier Connect, Resync or load-more.
C30_AgeAtQueryTime ==
  [][Queried(last') =>
       \A k \in 1..Len(last'.issues) :
          last'.issues[k].age_days = DaysIn(now' - last'.issues[k].created_at)]_vars

\* C31: a Query with sort field title and order asc returns issues whose
\* titles, as they are returned, never go down under the plain comparison of
\* strings by code point, whatever the case of the letters in the titles.
C31_TitleAscPlainOrder ==
  [][(Queried(last') /\ last'.query.sort_by = "title" /\ last'.query.sort_order = Asc) =>
       \A k \in 1..(Len(last'.issues) - 1) :
          ~StrLess(last'.issues[k + 1].title, last'.issues[k].title)]_vars

\* the query was made without a sort field and an order: the defaults of the
\* handler's parameters are in force
SortLeftOut(query) ==
  query.sort_by = DefaultQuery.sort_by /\ query.sort_order = DefaultQuery.sort_order
\* the sequence never goes up in created_at
NewestFirst(issues) ==
  \A i, j \in 1..Len(issues) : i < j => issues[i].created_at >= issues[j].created_at

\* C32: a Query made without a sort field and an order returns the issues
\* newest first, by created_at downwards, whatever the order the cache holds
\* them in; the order is the same with a text filter or a label filter, and
\* it goes on from one page to the next page of the same query.
C32_DefaultIsNewestFirst ==
  [][(Queried(last') /\ SortLeftOut(last'.query)) =>
       \A all \in {QueryFiltered(issues_store'[last'.repo], last'.query)} :
          /\ NewestFirst(all)
          /\ Ids(all) = {issues_store'[last'.repo][i].id :
                           i \in Matching(issues_store'[last'.repo], last'.query)}
          /\ last'.issues = PageOf(all, last'.query.page, last'.query.pageSize)
          /\ NewestFirst(last'.issues)
          /\ (/\ Queried(last)
              /\ last'.query = [last.query EXCEPT !.page = @ + 1]
              /\ issues_store' = issues_store) =>
                NewestFirst(last.issues \o last'.issues)]_vars
\* the cache holds the oldest issue 13 first, then the newest, 14, then 11; a
\* query for the label bug without sort field and order, in pages of one,
\* has returned 14 on its first page and returns 11 on its second
C32_Witness ==
  /\ Queried(last) /\ SortLeftOut(last.query)
  /\ last.query.label = Label("bug") /\ last.query.q = NoStr
  /\ last.query.page = 2 /\ last.query.pageSize = 1
  /\ Len(issues_store[RepoId]) = 3
  /\ issues_store[RepoId][1].id = 13 /\ issues_store[RepoId][2].id = 14
  /\ issues_store[RepoId][3].id = 11
  /\ last.total = 2 /\ Len(last.issues) = 1 /\ last.issues[1].id = 11

Extracted(o) == o.op = "Extract"
RequiredKeys == {"progress_pct", "status", "summary"}
\* a text without the white space at its ends
Trim(text) ==
  LET solid == {k \in 1..Len(text) : text[k] # Ws}
  IN IF solid = {} THEN << >>
     ELSE SubSeq(text, CHOOSE a \in solid : \A b \in solid : a <= b,
                       CHOOSE a \in solid : \A b \in solid : a >= b)
\* the fenced blocks of a text: from a fence with json to the next fence
FencedBlocks(text) ==
  { b \in (1..Len(text)) \X (1..Len(text)) :
      /\ b[1] < b[2] /\ text[b[1]] = JsonFence /\ text[b[2]] = Fence
      /\ \A k \in (b[1] + 1)..(b[2] - 1) : ~StartsFence(text[k]) }
\* the fenced block holds an object with the required keys, and nothing else
ValidBlock(text, b) ==
  LET content == Trim(SubSeq(text, b[1] + 1, b[2] - 1))
  IN /\ content # << >> /\ content[1] = LBrace
     /\ json_loads(content).ok
     /\ RequiredKeys \subseteq DOMAIN json_loads(content).d
ValidBlocks(text) == {b \in FencedBlocks(text) : ValidBlock(text, b)}
\* a message of the agent with a text that has a valid block
HasValidBlock(message) ==
  /\ message.shape = "dict" /\ message.type = "devin_message"
  /\ message.text.kind = "str"
  /\ ValidBlocks(message.text.tokens) # {}
\* the object of the first valid block of the message
FirstValidOf(message) ==
  LET text == message.text.tokens
      b == CHOOSE x \in ValidBlocks(text) : \A y \in ValidBlocks(text) : x[1] <= y[1]
  IN json_loads(Trim(SubSeq(text, b[1] + 1, b[2] - 1))).d

\* C33: the extractor returns the object of the first valid fenced block of
\* the most recent message that has a valid block (one that parses as an
\* object with progress_pct, status and summary); blocks that do not parse
\* or lack a key are passed over, and the result is none exactly when no
\* message has a valid block.
C33_MostRecentValidBlock ==
  Extracted(last) =>
    LET with == {i \in 1..Len(last.messages) : HasValidBlock(last.messages[i])}
        latest == CHOOSE i \in with : \A j \in with : i >= j
    IN IF with = {} THEN last.so = None
       ELSE last.so = Some(FirstValidOf(last.messages[latest]))

\* C34: the extractor never raises: for every transcript, the empty one,
\* messages with missing or null text, messages that are not objects and
\* blocks with malformed content, it returns a valid record or none.
C34_ExtractorNeverRaises ==
  Extracted(last) =>
    /\ last.code = 200
    /\ last.so = None \/ (last.so.some /\ RequiredKeys \subseteq DOMAIN last.so.d)

\* the credentials of the connected repositories and the API key
StoredSecrets == {repos_store[r].githubPat : r \in DOMAIN repos_store} \cup {DEVIN_API_KEY}

\* C35: whatever text the failing upstream response or the exception carries,
\* the error message an operation returns holds neither the stored
\* credential of a repository nor the API key of the agent service.
C35_NoSecretInErrorMessage ==
  \A secret \in StoredSecrets : ~In(secret, last.error)

\* no two issues of the cache have the same id
DistinctIds(cache) ==
  \A i, j \in 1..Len(cache) : cache[i].id = cache[j].id => i = j

\* C36: in every reachable state no two issues in the cache of one
\* repository have the same id, whatever Connects, Resyncs and load-more
\* queries were made and however the tracker's pages changed between them.
C36_IdsUniqueInCache ==
  \A r \in DOMAIN issues_store : DistinctIds(issues_store[r])
\* a query with load_more on a repository that was connected when the
\* tracker's first page was full, after the tracker has grown so that issues
\* of the old first page are on page 2: the cache holds the old first page
C36_Witness ==
  /\ last.op = "GetIssues" /\ last.code = 200 /\ last.load_more /\ last.repo = RepoId
  /\ tracker[RepoId] = GrownListing
  /\ Len(issues_store[RepoId]) = Len(ProcessIssues(SubSeq(LongListing, 1, PER_PAGE)))
  /\ issues_store[RepoId][1].id = LongListing[1].id
  /\ \E k \in 1..Len(TrackerPage(RepoId, 2)) :
        TrackerPage(RepoId, 2)[k].id = issues_store[RepoId][Len(issues_store[RepoId])].id

\* C37: every PR-creation intent goes with its session: the session it is
\* keyed by is in the session map, and the issue the intent records, by id and
\* by number, is the issue the session was scoped for; after an Execute with
\* any session id and issue id, and after the sweep of expired sessions.
C37_IntentMatchesSession ==
  \A s \in DOMAIN pr_creation_store :
     /\ s \in DOMAIN sessions_store
     /\ pr_creation_store[s].issue_id = sessions_store[s].issue_id
     /\ IssueFound(sessions_store[s].issue_id) =>
          pr_creation_store[s].issue_number = FindIssue(sessions_store[s].issue_id).issue.number

\* the call of the agent service the operation makes has failed: create
\* session in a Scope, get session in a Poll, send message in an Execute
AgentCallFailed(o) ==
  \/ o.op = "Scope" /\ o.detail \in {"agent_error", "agent_unreachable", "no_session_id"}
  \/ o.op = "Poll" /\ o.detail \in {"not_found", "http_error", "network"}
  \/ o.op = "Execute" /\ o.sent = 1 /\ o.detail \in {"not_found", "http_error", "network"}

\* C38: when the agent-service call of a Scope, a Poll or an Execute fails,
\* the operation returns an error and the session map and the intent map are
\* as they were when it was called: no session is made, no status or
\* last_accessed is written, no intent is recorded, neither by the steps up
\* to the call of the agent service nor by the step that sees it fail.
C38_AgentFailureChangesNothing ==
  [][/\ AgentCallFailed(last') =>
          /\ last'.code >= 400
          /\ sessions_store' = sessions_store
          /\ pr_creation_store' = pr_creation_store
          /\ agent_sessions' = agent_sessions
     /\ last'.op \in {"ScopeCall", "ScopeAwait", "PollCall", "ExecuteCall"} =>
          /\ sessions_store' = sessions_store
          /\ pr_creation_store' = pr_creation_store
          /\ agent_sessions' = agent_sessions]_vars
\* an Execute whose message could not be sent, for a session that is in the
\* session map: the session has not moved to executing and has no intent
C38_Witness ==
  /\ last.op = "Execute" /\ last.code = 500 /\ last.detail = "http_error" /\ last.sent = 1
  /\ last.sid \in DOMAIN sessions_store
  /\ sessions_store[last.sid].status # "executing"
  /\ last.sid \notin DOMAIN pr_creation_store

\* what a Poll of session sid that found no structured output stores and
\* returns, by lines 1152-1211: the session is touched, and the pull-request
\* trigger, which sees the status only, runs as after any other Poll
PollWithoutOutput(o, sid) ==
  LET fires == PrTriggerFires(o.status, None, sid, pr_creation_store)
  IN /\ o.code = 200
     /\ sessions_store' = TouchOnPoll(sessions_store, sid, o.status)
     /\ o.pr_calls = (IF fires THEN 1 ELSE 0)
     /\ IF fires /\ o.pr_ok
          THEN /\ pr_creation_store' = [pr_creation_store EXCEPT ![sid].pr_created = TRUE]
               /\ o.so = Some([k \in {"pr_url"} |-> PrUrl])
          ELSE /\ pr_creation_store' = pr_creation_store
               /\ o.so = None

\* C40: a Poll sends a message to the agent session only when the answer of
\* the agent service has no structured output and the extractor finds none in
\* the transcript; it sends at most one; and whether that send succeeds or
\* fails, the Poll answers 200 and stores and returns what a Poll without
\* structured output stores and returns.
C40_PollAsksOnlyWithoutOutput ==
  [][last'.op = "Poll" =>
       /\ last'.sent \in {0, 1}
       /\ last'.sent = 1 =>
            /\ last'.fallback = "none"
            /\ \E ex \in {extract_structured_output_from_messages(last'.messages)} :
                  ~ex.raised /\ ex.so = None
            /\ last'.nudge \in {"ok", "not_found", "http_error", "network"}
            /\ PollWithoutOutput(last', last'.sid)
            /\ agent_sessions' = agent_sessions]_vars

\* a Poll of a stored session whose request for an update failed: it answered
\* 200 without structured output and recorded the status
C40_Witness ==
  /\ last.op = "Poll" /\ last.sent = 1 /\ last.nudge \in {"http_error", "network"}
  /\ last.code = 200 /\ last.so = None /\ last.status = "blocked"
  /\ last.sid \in DOMAIN sessions_store
  /\ sessions_store[last.sid].status = "blocked"
====
